---- MODULE Spec2Model ----
(***************************************************************************)
(* Model of CdkErrorMapper (packages/eslint-rules/src/index.ts, lines      *)
(* 65-717): getAmplifyError, getCDKError and the getKnownErrors rule       *)
(* table.                                                                  *)
(*                                                                         *)
(* Text is modelled as a sequence of tokens.  A token is a piece of text   *)
(* (a TLA+ string); the text of a message is the concatenation of its      *)
(* tokens.  Messages are tokenised so that every literal of a pattern of   *)
(* the rule table is a whole number of tokens, which makes pattern         *)
(* matching on tokens agree with pattern matching on characters for the    *)
(* messages considered.  A backquote of the source text is written as an   *)
(* apostrophe; the replacement patterns dollar-backquote and               *)
(* dollar-apostrophe are the tokens "$<" and "$>".                         *)
(***************************************************************************)
EXTENDS Integers, Sequences, FiniteSets, TLC

(***************************************************************************)
(* Token classes                                                           *)
(***************************************************************************)

\* ANSI colour / control sequences, removed by stripANSI.
AnsiTokens == {"\\x1b[31m", "\\x1b[0m"}

\* Line terminators: the characters of the class [\r\n].
EolTokens == {"\\n", "\\r"}

\* Tokens made of digits only (the class \d).
DigitTokens == {"10", "0", "1", "2", "262144000", "5", "6", "123456789012"}

\* Tokens made of [a-z0-9-] only.
SlugTokens == DigitTokens \cup {"-app-main-0a1b", "-sandbox-1c2d"}

\* Tokens of exactly one character other than a line terminator.
CharTokens == {".", "/", " ", "s", ":", "'", "]", "0", "1", "2", "5", "6"}

\* Tokens that contain white space (everything else is of the class \S).
SpaceTokens == EolTokens \cup
    {" ", "Error: ", ": permission denied, open '/x'", " -> '", " is currently",
     " synthing to cdk.out", " bytes", " at /p/"}

IsNonSpace(t) == t \notin SpaceTokens

(***************************************************************************)
(* Regular expressions, as syntax trees.                                   *)
(***************************************************************************)

Node(o, t, n, k) == [op |-> o, toks |-> t, name |-> n, kids |-> k]

\* A literal piece of pattern text: one token, or several.
Lit(t) == Node("lit", <<t>>, "", <<>>)
Lits(ts) == Node("lit", ts, "", <<>>)
\* `.*`  greedy, any characters but line terminators
AnyStar == Node("anystar", <<>>, "", <<>>)
\* `.`   one character that is not a line terminator
Dot == Node("dot", <<>>, "", <<>>)
\* `\S+`
NonSpacePlus == Node("nonspace+", <<>>, "", <<>>)
\* `\d+`
DigitPlus == Node("digit+", <<>>, "", <<>>)
\* `[a-z0-9-]+`
SlugPlus == Node("slug+", <<>>, "", <<>>)
\* `[\r\n]*`  (multiLineEolRegex)
EolStar == Node("eol*", <<>>, "", <<>>)
\* `$` without the m flag: end of input
End == Node("end", <<>>, "", <<>>)
\* `(?<!text)`
NotBehind(ts) == Node("notbehind", ts, "", <<>>)
\* `(r)` and `(?<name>r)`
Grp(r) == Node("group", <<>>, "", <<r>>)
Named(n, r) == Node("group", <<>>, n, <<r>>)
Cat(rs) == Node("cat", <<>>, "", rs)
Alt(rs) == Node("alt", <<>>, "", rs)
Star(r) == Node("star", <<>>, "", <<r>>)
Plus(r) == Node("plus", <<>>, "", <<r>>)
Opt(r) == Node("opt", <<>>, "", <<r>>)

\* Internal nodes of the matcher: close a named group opened at position p,
\* and reject an empty iteration of a quantifier entered at position p.
CloseNode(n, p) == [op |-> "close", toks |-> <<>>, name |-> n, kids |-> <<>>, pos |-> p]
ProgressNode(p) == [op |-> "progress", toks |-> <<>>, name |-> "", kids |-> <<>>, pos |-> p]

\* Number of capture groups of a pattern (matchGroups.length - 1).
RECURSIVE GroupCount(_)
RECURSIVE GroupCountAll(_)
GroupCount(r) ==
    (IF r.op = "group" THEN 1 ELSE 0) + GroupCountAll(r.kids)
GroupCountAll(rs) ==
    IF rs = <<>> THEN 0 ELSE GroupCount(Head(rs)) + GroupCountAll(Tail(rs))

\* Names of the named groups of a pattern, in the order they open
\* (the order of Object.entries(matchGroups.groups)).
RECURSIVE GroupNames(_)
RECURSIVE GroupNamesAll(_)
GroupNames(r) ==
    (IF r.op = "group" /\ r.name # "" THEN <<r.name>> ELSE <<>>) \o GroupNamesAll(r.kids)
GroupNamesAll(rs) ==
    IF rs = <<>> THEN <<>> ELSE GroupNames(Head(rs)) \o GroupNamesAll(Tail(rs))

SubSeqFrom(s, i, j) == IF j < i THEN <<>> ELSE SubSeq(s, i, j)

\* ts occurs in s starting at position i
OccursAt(ts, s, i) ==
    /\ i + Len(ts) - 1 <= Len(s)
    /\ \A k \in 1..Len(ts) : s[i + k - 1] = ts[k]

\* Number of consecutive tokens of s from position i that satisfy the class
RECURSIVE RunLength(_, _, _)
RunLength(cls, s, i) ==
    IF i <= Len(s) /\ s[i] \in cls THEN 1 + RunLength(cls, s, i + 1) ELSE 0

NoMatch == <<>>

(***************************************************************************)
(* Backtracking matcher.  stack is the sequence of nodes still to match    *)
(* from position i of s; caps the named captures so far, as pairs          *)
(* <<name, text>>.  The result is NoMatch or <<end, caps>> for the first   *)
(* match in the priority order of a backtracking engine (alternatives left *)
(* to right, quantifiers greedy).                                          *)
(***************************************************************************)
RECURSIVE Match(_, _, _, _)
RECURSIVE MatchRun(_, _, _, _, _, _)

\* A greedy run of n..lo tokens, longest first, each followed by rest.
MatchRun(rest, s, i, caps, n, lo) ==
    IF n < lo THEN NoMatch
    ELSE LET r == Match(rest, s, i + n, caps)
         IN  IF r # NoMatch THEN r ELSE MatchRun(rest, s, i, caps, n - 1, lo)

Match(stack, s, i, caps) ==
    IF stack = <<>> THEN <<i, caps>>
    ELSE
    LET r == Head(stack)
        rest == Tail(stack)
    IN  CASE r.op = "lit" ->
                IF OccursAt(r.toks, s, i) THEN Match(rest, s, i + Len(r.toks), caps)
                ELSE NoMatch
          [] r.op = "dot" ->
                IF i <= Len(s) /\ s[i] \in CharTokens
                THEN Match(rest, s, i + 1, caps) ELSE NoMatch
          [] r.op = "anystar" ->
                MatchRun(rest, s, i, caps,
                         RunLength({s[k] : k \in 1..Len(s)} \ EolTokens, s, i), 0)
          [] r.op = "nonspace+" ->
                MatchRun(rest, s, i, caps,
                         RunLength({s[k] : k \in 1..Len(s)} \ SpaceTokens, s, i), 1)
          [] r.op = "digit+" ->
                MatchRun(rest, s, i, caps, RunLength(DigitTokens, s, i), 1)
          [] r.op = "slug+" ->
                MatchRun(rest, s, i, caps, RunLength(SlugTokens, s, i), 1)
          [] r.op = "eol*" ->
                MatchRun(rest, s, i, caps, RunLength(EolTokens, s, i), 0)
          [] r.op = "end" ->
                IF i = Len(s) + 1 THEN Match(rest, s, i, caps) ELSE NoMatch
          [] r.op = "notbehind" ->
                IF i - Len(r.toks) >= 1 /\ OccursAt(r.toks, s, i - Len(r.toks))
                THEN NoMatch ELSE Match(rest, s, i, caps)
          [] r.op = "group" ->
                IF r.name = "" THEN Match(r.kids \o rest, s, i, caps)
                ELSE Match(r.kids \o <<CloseNode(r.name, i)>> \o rest, s, i, caps)
          [] r.op = "close" ->
                Match(rest, s, i, Append(caps, <<r.name, SubSeqFrom(s, r.pos, i - 1)>>))
          [] r.op = "progress" ->
                IF i = r.pos THEN NoMatch ELSE Match(rest, s, i, caps)
          [] r.op = "cat" ->
                Match(r.kids \o rest, s, i, caps)
          [] r.op = "alt" ->
                IF r.kids = <<>> THEN NoMatch
                ELSE LET a == Match(<<Head(r.kids)>> \o rest, s, i, caps)
                     IN  IF a # NoMatch THEN a
                         ELSE Match(<<Alt(Tail(r.kids))>> \o rest, s, i, caps)
          [] r.op = "star" ->
                LET a == Match(r.kids \o <<ProgressNode(i), r>> \o rest, s, i, caps)
                IN  IF a # NoMatch THEN a ELSE Match(rest, s, i, caps)
          [] r.op = "plus" ->
                Match(r.kids \o <<Star(r.kids[1])>> \o rest, s, i, caps)
          [] r.op = "opt" ->
                LET a == Match(r.kids \o rest, s, i, caps)
                IN  IF a # NoMatch THEN a ELSE Match(rest, s, i, caps)

\* RegExp.prototype.exec for a pattern without the g flag: the match at the
\* leftmost position at which there is one.  NoMatch, or
\* [start, end, caps]: the matched text is s[start..end-1].
\* A condition every match of r at position i of s satisfies: a pattern that
\* begins with literal text matches only where that text begins.  It spares
\* the matcher the positions where it is bound to fail.
RECURSIVE CanStartAt(_, _, _)
CanStartAt(r, s, i) ==
    CASE r.op = "lit" -> i <= Len(s) /\ s[i] = r.toks[1]
      [] r.op \in {"cat", "group"} -> CanStartAt(r.kids[1], s, i)
      [] r.op = "alt" -> \E k \in 1..Len(r.kids) : CanStartAt(r.kids[k], s, i)
      [] OTHER -> TRUE

RECURSIVE ExecFrom(_, _, _)
ExecFrom(r, s, i) ==
    IF i > Len(s) + 1 THEN NoMatch
    ELSE IF ~CanStartAt(r, s, i) THEN ExecFrom(r, s, i + 1)
    ELSE LET m == Match(<<r>>, s, i, <<>>)
         IN  IF m # NoMatch THEN <<i, m[1], m[2]>> ELSE ExecFrom(r, s, i + 1)

\* The tokens with which a match of r can begin; AnyStart is among them
\* when the pattern does not begin with literal text.
AnyStart == ""

RECURSIVE StartTokens(_)
StartTokens(r) ==
    CASE r.op = "lit" -> {r.toks[1]}
      [] r.op \in {"cat", "group"} -> StartTokens(r.kids[1])
      [] r.op = "alt" -> UNION { StartTokens(r.kids[k]) : k \in 1..Len(r.kids) }
      [] OTHER -> {AnyStart}

\* A text that holds none of the tokens a match begins with has no match.
Exec(r, s) ==
    LET start == StartTokens(r)
    IN  IF AnyStart \in start \/ \E k \in 1..Len(s) : s[k] \in start
        THEN ExecFrom(r, s, 1)
        ELSE NoMatch

\* RegExp.prototype.test
Test(r, s) == Exec(r, s) # NoMatch

(***************************************************************************)
(* The rule table                                                          *)
(***************************************************************************)

\* formatter.normalizeAmpxCommand: renders the command line the user runs.
normalizeAmpxCommand(command) == <<"npx ampx ", command>>

Rule(regex, message, resolution, name, class) ==
    [errorRegex |-> regex, humanReadableErrorMessage |-> message,
     resolutionMessage |-> resolution, errorName |-> name, classification |-> class]

BootstrapVersion == Lit("This CDK deployment requires bootstrap stack version ")
UserIs == Lit("User:")
NotAuthorized == Lit(" is not authorized to perform:")
OnResource == Lit(" on resource:")
NoIdentityPolicy == Lit(" because no identity-based policy allows the ")
NpmPrefix == Grp(Alt(<<Lit("npm error"), Lit("npm ERR!")>>))
NoSuchFile == Lit("no such file or directory, ")
CircularDependency == Lit("Circular dependency between resources: [")
AmplifyStackName == Cat(<<Lit("amplify"), SlugPlus>>)
FailedValidationStack == Lit("failed: ValidationError: Stack")
FileConventionResolution == <<"Ensure that the amplify/backend.(ts|js) file exists">>
PermissionsMessage == <<"Unable to deploy due to insufficient permissions">>
CfnConsoleResolution == <<"Find more information in the CloudFormation AWS Console for this stack.">>
AmplifyFolderResolution == <<"Check the permissions of '.amplify' folder and try running the command again">>

getKnownErrors == <<
  \* 1
  Rule(Alt(<<Cat(<<Lit("ExpiredToken: "), AnyStar>>),
             Cat(<<Lit("The security token included in the request is "),
                   Grp(Alt(<<Lit("expired"), Lit("invalid")>>))>>)>>),
       <<"The security token included in the request is invalid.">>,
       <<"Please update your AWS credentials. You can do this by running 'aws configure' or by updating your AWS credentials file. If you're using temporary credentials, you may need to obtain new ones.">>,
       "ExpiredTokenError", "ERROR"),
  \* 2
  Rule(Lit("The request signature we calculated does not match the signature you provided"),
       <<"The request signature we calculated does not match the signature you provided.">>,
       <<"You can retry your last request, check if your system time is synchronized (clock skew) or ensure your AWS credentials are correctly set and refreshed.">>,
       "RequestSignatureError", "ERROR"),
  \* 3
  Rule(Lits(<<"Access ", "Denied">>),
       <<"The deployment role does not have sufficient permissions to perform this deployment.">>,
       <<"Ensure your deployment role has the AmplifyBackendDeployFullAccess role along with any additional permissions required to deploy your backend definition.">>,
       "AccessDeniedError", "ERROR"),
  \* 4
  Rule(Alt(<<Grp(Lit("Has the environment been bootstrapped")),
             Grp(Cat(<<Lit("Is account "), DigitPlus, Lit(" bootstrapped")>>)),
             Grp(Lit("Is this account bootstrapped"))>>),
       <<"This AWS account and region has not been bootstrapped.">>,
       <<"Run 'cdk bootstrap aws://", "{YOUR_ACCOUNT_ID}", "/", "{YOUR_REGION}", "' locally to resolve this.">>,
       "BootstrapNotDetectedError", "ERROR"),
  \* 5
  Rule(Cat(<<BootstrapVersion, NonSpacePlus, Lit(", found "), NonSpacePlus,
             Lit(". Please run 'cdk bootstrap'.")>>),
       <<"This AWS account and region has outdated CDK bootstrap stack.">>,
       <<"Run 'cdk bootstrap aws://", "{YOUR_ACCOUNT_ID}", "/", "{YOUR_REGION}", "' locally to re-bootstrap.">>,
       "BootstrapOutdatedError", "ERROR"),
  \* 6
  Rule(Cat(<<BootstrapVersion, NonSpacePlus,
             Lit(", but during the confirmation via SSM parameter "), NonSpacePlus,
             Lit(" the following error occurred: AccessDeniedException")>>),
       <<"Unable to detect CDK bootstrap stack due to permission issues.">>,
       <<"Ensure that AWS credentials have an IAM policy that grants read access to 'arn:aws:ssm:*:*:parameter/cdk-bootstrap/*' SSM parameters.">>,
       "BootstrapDetectionError", "ERROR"),
  \* 7
  Rule(Lit("This CDK CLI is not compatible with the CDK library used by your application. Please upgrade the CLI to the latest version."),
       <<"Installed 'aws-cdk' is not compatible with installed 'aws-cdk-lib'.">>,
       <<"Make sure that version of 'aws-cdk' is greater or equal to version of 'aws-cdk-lib'">>,
       "CDKVersionMismatchError", "ERROR"),
  \* 8
  Rule(Lit("Command cdk not found"),
       <<"Unable to detect cdk installation">>,
       <<"Ensure dependencies in your project are installed with your package manager. For example, by running 'yarn install' or 'npm install'">>,
       "CDKNotFoundError", "ERROR"),
  \* 9
  Rule(Cat(<<Lit("Role "), Named("roleArn", AnyStar), Lit(" is invalid or cannot be assumed")>>),
       <<"Role ", "{roleArn}", " is invalid or cannot be assumed">>,
       <<"Ensure the role exists and AWS credentials have an IAM policy that grants sts:AssumeRole for the role">>,
       "InvalidOrCannotAssumeRoleError", "ERROR"),
  \* 10
  Rule(Lit("Unable to resolve AWS account to use"),
       <<"Unable to resolve AWS account to use. It must be either configured when you define your CDK Stack, or through the environment">>,
       <<"You can retry your last request as this is most likely a transient issue: https://github.com/aws/aws-cdk/issues/24744. If the error persists ensure your local AWS credentials are valid.">>,
       "CDKResolveAWSAccountError", "ERROR"),
  \* 11
  Rule(Cat(<<Lit("EACCES"), Grp(AnyStar)>>),
       <<"File permissions error">>,
       <<"Check that you have the right access permissions to the mentioned file">>,
       "FilePermissionsError", "ERROR"),
  \* 12
  Rule(Cat(<<Lit("operation not permitted, "), Lit("rename "),
             Named("fileName", Cat(<<Grp(AnyStar), Lits(<<"/", "synth.lock", ".">>), NonSpacePlus>>)),
             Lit(" -> '"), Grp(AnyStar), Lits(<<"/", "synth.lock", "'">>)>>),
       <<"Not permitted to rename file: ", "{fileName}">>,
       <<"Try running the command again and ensure that only one instance of sandbox is running. If it still doesn't work check the permissions of '.amplify' folder">>,
       "FilePermissionsError", "ERROR"),
  \* 13
  Rule(Cat(<<Lit("operation not permitted, "), Lit("mkdir '"), Grp(AnyStar), Dot,
             Lits(<<"amplify", "/", "artifacts", "/", "cdk">>), Dot, Lits(<<"out", "'">>)>>),
       <<"Not permitted to create the directory '.amplify/artifacts/cdk.out'">>,
       AmplifyFolderResolution,
       "FilePermissionsError", "ERROR"),
  \* 14
  Rule(Cat(<<Lit("operation not permitted, "), Grp(Alt(<<Lit("unlink"), Lit("open")>>)), Lit(" "),
             Named("fileName", Cat(<<Grp(AnyStar), Lits(<<".", "lock">>), NonSpacePlus>>))>>),
       <<"Operation not permitted on file: ", "{fileName}">>,
       AmplifyFolderResolution,
       "FilePermissionsError", "ERROR"),
  \* 15
  Rule(Cat(<<Lit("Cannot find module "), Grp(AnyStar)>>),
       <<"Cannot find module">>,
       <<"Check your backend definition in the 'amplify' folder for missing file or package imports. Try installing them with your package manager.">>,
       "ModuleNotFoundError", "ERROR"),
  \* 16
  Rule(Alt(<<Cat(<<Lit("Another CLI "), Grp(AnyStar), Lit(" is currently"), Grp(AnyStar), Lits(<<".", " ">>)>>),
             Cat(<<Lit("Other CLIs "), Grp(AnyStar), Lit(" are currently reading from"), Grp(AnyStar), Lits(<<".", " ">>)>>)>>),
       <<"Multiple sandbox instances detected.">>,
       <<"Make sure only one instance of sandbox is running for this project">>,
       "MultipleSandboxInstancesError", "ERROR"),
  \* 17
  Rule(Cat(<<Grp(AnyStar), Lit(" "),
             Grp(Alt(<<Lit("size must be smaller than"), Lit("exceeds the maximum allowed size of")>>)),
             Lit(" "), Named("maxSize", DigitPlus), Lit(" bytes")>>),
       <<"Maximum Lambda size exceeded">>,
       <<"Make sure your Lambda bundled packages with layers and dependencies is smaller than ", "{maxSize}", " bytes unzipped.">>,
       "LambdaMaxSizeExceededError", "ERROR"),
  \* 18
  Rule(Lit("Uploaded file must be a non-empty zip"),
       <<"Lambda bundled into an empty zip">>,
       <<"Try removing '.amplify/artifacts' then running the command again. If it still doesn't work, see https://github.com/aws/aws-cdk/issues/18459 for more methods.">>,
       "LambdaEmptyZipFault", "FAULT"),
  \* 19
  Rule(Cat(<<UserIs, Grp(AnyStar), NotAuthorized, Lits(<<" ", "lambda:GetLayerVersion">>), OnResource,
             Grp(AnyStar), Lit(" because no resource-based policy allows the "),
             Lit("lambda:GetLayerVersion"), Lit(" action")>>),
       <<"Unable to get Lambda layer version">>,
       <<"Make sure layer ARNs are correct and layer regions match function region">>,
       "GetLambdaLayerVersionError", "ERROR"),
  \* 20
  Rule(Cat(<<Lit("The stack named "), Named("stackName", AnyStar), Lit(" is in a failed state"), Dot,
             Lit(" You may need to delete it from the AWS console : DELETE_FAILED (The following resource(s) failed to delete: "),
             Named("resources", AnyStar), Dot, Lit(" )")>>),
       <<"The CloudFormation deletion failed due to ", "{stackName}", " being in DELETE_FAILED state. Ensure all your resources are able to be deleted">>,
       <<"The following resource(s) failed to delete: ", "{resources}", ". Check the error message for more details and ensure your resources are in a state where they can be deleted. Check the CloudFormation AWS Console for this stack to find additional information.">>,
       "CloudFormationDeletionError", "ERROR"),
  \* 21
  Rule(Cat(<<UserIs, Grp(AnyStar), NotAuthorized, Grp(AnyStar), OnResource,
             Named("resource", AnyStar), NoIdentityPolicy, Named("action", AnyStar), Lit(" action")>>),
       PermissionsMessage,
       <<"Ensure you have permissions to call ", "{action}", " for ", "{resource}">>,
       "AccessDeniedError", "ERROR"),
  \* 22
  Rule(Cat(<<UserIs, Grp(AnyStar), NotAuthorized, Grp(AnyStar),
             NoIdentityPolicy, Named("action", AnyStar), Lit(" action")>>),
       PermissionsMessage,
       <<"Ensure you have permissions to call ", "{action}">>,
       "AccessDeniedError", "ERROR"),
  \* 23
  Rule(Cat(<<UserIs, Grp(AnyStar), NotAuthorized, Named("action", AnyStar), OnResource,
             Named("resource", AnyStar)>>),
       PermissionsMessage,
       <<"Ensure you have permissions to call ", "{action}", " for ", "{resource}">>,
       "AccessDeniedError", "ERROR"),
  \* 24
  Rule(Cat(<<Lit("Found "), Named("number", AnyStar), Lit(" problem(s) with the schema:")>>),
       <<"{number}", " problem(s) have been found with your schema">>,
       <<"See the underlying error message for details about what the problems are and resolve them before attempting this action again">>,
       "SchemaError", "ERROR"),
  \* 25
  Rule(Cat(<<Lit("Transform failed with "), AnyStar, Lit(" error"), Grp(Opt(Lit("s"))), Lit(":"), EolStar,
             Named("esBuildErrorMessage", Plus(Grp(Cat(<<AnyStar, EolStar>>))))>>),
       <<"{esBuildErrorMessage}">>,
       <<"Fix the above mentioned type or syntax error in your backend definition.">>,
       "ESBuildError", "ERROR"),
  \* 26
  Rule(Lits(<<"Amplify ", "Backend not found in">>),
       <<"Backend definition could not be found in amplify directory.">>,
       FileConventionResolution,
       "FileConventionError", "ERROR"),
  \* 27
  Rule(Cat(<<Lit("Amplify "), Grp(AnyStar), Lit(" must be defined in "), Grp(AnyStar)>>),
       <<"File name or path for backend definition are incorrect.">>,
       FileConventionResolution,
       "FileConventionError", "ERROR"),
  \* 28
  Rule(Lit("Updates are not allowed for property"),
       <<"The changes that you are trying to apply are not supported.">>,
       <<"The resources referenced in the error message must be deleted and recreated to apply the changes.">>,
       "CFNUpdateNotSupportedError", "ERROR"),
  \* 29
  Rule(Lit("Invalid AttributeDataType input, consider using the provided AttributeDataType enum"),
       <<"User pool attributes cannot be changed after a user pool has been created.">>,
       <<"To change these attributes, remove 'defineAuth' from your backend, deploy, then add it back. Note that removing 'defineAuth' and deploying will delete any users stored in your UserPool.">>,
       "CFNUpdateNotSupportedError", "ERROR"),
  \* 30
  Rule(Cat(<<Lit("connect ENOMEM "),
             Named("remoteAddress", Cat(<<DigitPlus, Lit("."), DigitPlus, Lit("."), DigitPlus, Lit("."), DigitPlus>>)),
             AnyStar>>),
       <<"Unable to connect to remote address ", "{remoteAddress}", " due to insufficient memory.">>,
       <<"There appears to be insufficient memory on your system to finish. Close other applications or restart your system and try again.">>,
       "InsufficientMemorySpaceError", "ERROR"),
  \* 31
  Rule(Cat(<<Lits(<<"npm error", " ", "code EJSONPARSE">>), EolStar, Lits(<<"npm error", " ", "path ">>),
             Named("filePath", Cat(<<AnyStar, Lits(<<"/", "package.json">>)>>)), EolStar,
             Star(Grp(Cat(<<Lits(<<"npm error", " ">>), Grp(AnyStar), EolStar>>)))>>),
       <<"The ", "{filePath}", " is not a valid JSON.">>,
       <<"Check package.json file and make sure it is a valid JSON.">>,
       "InvalidPackageJsonError", "ERROR"),
  \* 32
  Rule(Named("npmError", Cat(<<NpmPrefix, Lits(<<" ", "code ENOENT">>), EolStar,
             Star(Grp(Cat(<<NpmPrefix, Lit(" "), Grp(AnyStar), EolStar>>)))>>)),
       <<"NPM error occurred: ", "{npmError}">>,
       <<"See https://docs.npmjs.com/common-errors for resolution.">>,
       "CommonNPMError", "ERROR"),
  \* 33
  Rule(Cat(<<NoSuchFile, Lit("open '"), AnyStar, Lits(<<".", "amplify">>), Dot, Lit("artifacts"), Dot,
             Lits(<<"cdk", ".", "out">>), Dot, Lits(<<"manifest.json", "'">>)>>),
       <<"The Amplify backend definition is missing 'defineBackend' call.">>,
       <<"Check your backend definition in the 'amplify' folder. Ensure that 'amplify/backend.ts' contains 'defineBackend' call.">>,
       "MissingDefineBackendError", "ERROR"),
  \* 34
  Rule(Cat(<<NoSuchFile, Named("action_and_filepath", AnyStar), End>>),
       <<"Failed to ", "{action_and_filepath}">>,
       <<"File or directory not found. Failed to ", "{action_and_filepath}">>,
       "FileNotFoundError", "ERROR"),
  \* 35
  Rule(Lits(<<"amplify", "/", "backend">>),
       <<"Unable to build Amplify backend.">>,
       <<"Check your backend definition in the 'amplify' folder for syntax and type errors.">>,
       "BackendBuildError", "ERROR"),
  \* 36
  Rule(Cat(<<Lit("Failed to retrieve backend secret "), Named("secretName", AnyStar), Lit(" for"),
             AnyStar, Lit("ParameterNotFound")>>),
       <<"The secret ", "{secretName}", " specified in the backend does not exist.">>,
       <<"Create secrets using the command ">> \o normalizeAmpxCommand("sandbox secret set")
           \o <<". For more information, see https://docs.amplify.aws/gen2/deploy-and-host/sandbox-environments/features/#set-secrets">>,
       "SecretNotSetError", "ERROR"),
  \* 37
  Rule(Alt(<<Lit("The code contains one or more errors"),
             Cat(<<Lit("The code contains one or more errors"), AnyStar, Lit("AppSync")>>)>>),
       <<"A custom resolver used in your defineData contains one or more errors">>,
       <<"Check for any syntax errors in your custom resolvers code.">>,
       "AppSyncResolverSyntaxError", "ERROR"),
  \* 38
  Rule(Lit("Failed to publish asset"),
       <<"CDK failed to publish assets">>,
       <<"Check the error message for more details.">>,
       "CDKAssetPublishError", "ERROR"),
  \* 39
  Rule(Cat(<<Lit("destroy failed Error: Stack ["), Named("stackArn", AnyStar),
             Lits(<<"]", " cannot be deleted while in status ">>)>>),
       <<"Backend failed to be deleted since the previous deployment is still in progress.">>,
       <<"Wait for the previous deployment for stack ", "{stackArn}", " to be completed before attempting to delete again.">>,
       "DeleteFailedWhileDeploymentInProgressError", "ERROR"),
  \* 40
  Rule(Cat(<<Lit("ValidationError: "), CircularDependency, Named("resources", AnyStar), Lit("]")>>),
       <<"The CloudFormation deployment failed due to circular dependency found between nested stacks [", "{resources}", "]">>,
       <<"If you are using functions then you can assign them to existing nested stacks that are dependent on functions or functions depend on them, for example:", "\\n",
         "1. If your function is defined as auth triggers, you should assign this function to auth stack.", "\\n",
         "2. If your function is used as data resolver or calls data API, you should assign this function to data stack.", "\\n",
         "To assign a function to a different stack, use the property 'resourceGroupName' in the defineFunction call and choose auth, data or any custom stack.", "\\n", "\\n",
         "If your circular dependency issue is not resolved with this workaround, please create an issue here https://github.com/aws-amplify/amplify-backend/issues/new/choose", "\\n">>,
       "CloudformationStackCircularDependencyError", "ERROR"),
  \* 41
  Rule(Cat(<<NotBehind(<<"ValidationError: ">>), CircularDependency, Named("resources", AnyStar), Lit("]")>>),
       <<"The CloudFormation deployment failed due to circular dependency found between resources [", "{resources}", "] in a single stack">>,
       <<"If you are creating custom stacks or adding new CDK resources to amplify stacks, ensure that there are no cyclic dependencies. For more details see: https://aws.amazon.com/blogs/infrastructure-and-automation/handling-circular-dependency-errors-in-aws-cloudformation/">>,
       "CloudformationResourceCircularDependencyError", "ERROR"),
  \* 42
  Rule(Cat(<<Named("stackName", AmplifyStackName), Grp(AnyStar), Lit(" "), FailedValidationStack, Lit(":"),
             Grp(AnyStar), Lit(" is in "), Named("state", AnyStar), Lit(" state and can not be updated")>>),
       <<"The CloudFormation deployment failed due to ", "{stackName}", " being in ", "{state}", " state.">>,
       CfnConsoleResolution,
       "CloudFormationDeploymentError", "ERROR"),
  \* 43
  Rule(Cat(<<FailedValidationStack, Lit(" ["), Named("stackName", AmplifyStackName), Grp(AnyStar),
             Lits(<<"]", " cannot be deleted while TerminationProtection is enabled">>)>>),
       <<"{stackName}", " cannot be deleted because it has termination deployment enabled.">>,
       <<"If you are sure you want to delete ", "{stackName}", ", you will need to disable TerminationProtection.">>,
       "CloudFormationDeletionError", "ERROR"),
  \* 44
  Rule(Alt(<<Cat(<<Lit("Deployment failed: "), Grp(AnyStar), EolStar>>),
             Cat(<<Lit("The stack named "), Grp(AnyStar), Lit(" failed "),
                   Grp(Alt(<<Lit("to deploy:"), Lit("creation,")>>)), Lit(" "), Grp(AnyStar)>>)>>),
       <<"The CloudFormation deployment has failed.">>,
       CfnConsoleResolution,
       "CloudFormationDeploymentError", "ERROR")
>>

(***************************************************************************)
(* Error objects                                                           *)
(***************************************************************************)

\* The value of an absent text (resolution of an error that has none).
Undefined == <<"<undefined>">>

\* An error object.  id is the identity of the object: "e" is the error
\* handed to getAmplifyError, "new" an error it constructs, any other value
\* an error deserialized from a message.  cause is the id of the object
\* attached as cause, or "undefined".  amplify is what
\* AmplifyError.isAmplifyError answers; toolkit the ToolkitError category
\* ("none" for an error that is not a ToolkitError).
ErrorObject(i, a, t, n, c, m, r, u) ==
    [id |-> i, amplify |-> a, toolkit |-> t, name |-> n, classification |-> c,
     message |-> m, resolution |-> r, cause |-> u]

\* new AmplifyUserError(name, {message, resolution}, cause)
AmplifyUserError(n, m, r, u) == ErrorObject("new", TRUE, "none", n, "ERROR", m, r, u)

\* new AmplifyFault(name, {message, resolution}, cause)
AmplifyFault(n, m, r, u) == ErrorObject("new", TRUE, "none", n, "FAULT", m, r, u)

\* No error: the undefined of fromStderr and getCDKError.
NoError == ErrorObject("none", FALSE, "none", "", "", <<>>, Undefined, "undefined")

Contains(s, t) == \E k \in 1..Len(s) : s[k] = t

\* String.prototype.includes for a piece of text that is one token
includes(s, t) == Contains(s, t)

\* Serialized structured errors that a message can carry, and the errors
\* they deserialize to.  The second one carries the first in its message.
SerializedDeploymentInProgress == "serializedError: {name: DeploymentInProgressError}"
SerializedChildProcessError == "serializedError: {name: ChildProcessError}"
SerializedTokens == {SerializedDeploymentInProgress, SerializedChildProcessError}

Deserialize(t) ==
    IF t = SerializedDeploymentInProgress
    THEN ErrorObject(t, TRUE, "none", "DeploymentInProgressError", "ERROR",
                     <<"Deployment already in progress.">>,
                     <<"Wait for the other deployment to finish.">>, "undefined")
    ELSE ErrorObject(t, TRUE, "none", "ChildProcessError", "FAULT",
                     <<"Child process failed: ", SerializedDeploymentInProgress>>,
                     Undefined, "undefined")

\* AmplifyError.fromStderr: the structured error serialized in the text, if any
RECURSIVE fromStderr(_)
fromStderr(stderr) ==
    IF stderr = <<>> THEN NoError
    ELSE IF Head(stderr) \in SerializedTokens THEN Deserialize(Head(stderr))
    ELSE fromStderr(Tail(stderr))

\* AmplifyError.isAmplifyError
isAmplifyError(error) == error.amplify

\* AmplifyError.fromError: the passthrough error of an unrecognized failure
fromError(error) ==
    ErrorObject("new", TRUE, "none", "unknown", "FAULT", error.message, Undefined, error.id)

\* A faulty strip-ansi that leaves the text as it is
stripANSI_Keep(s) == s

\* strip-ansi
RECURSIVE stripANSI(_)
stripANSI(s) ==
    IF s = <<>> THEN <<>>
    ELSE (IF Head(s) \in AnsiTokens THEN <<>> ELSE <<Head(s)>>) \o stripANSI(Tail(s))

(***************************************************************************)
(* String.prototype.replace(pattern, replacement) with a string pattern:   *)
(* the first occurrence is replaced, and the replacement text is read as a *)
(* replacement pattern.                                                    *)
(***************************************************************************)
RECURSIVE IndexOf(_, _, _)
IndexOf(s, t, i) ==
    IF i > Len(s) THEN 0 ELSE IF s[i] = t THEN i ELSE IndexOf(s, t, i + 1)

RECURSIVE ExpandReplacement(_, _, _, _)
ExpandReplacement(value, matched, before, after) ==
    IF value = <<>> THEN <<>>
    ELSE (CASE Head(value) = "$$" -> <<"$">>
            [] Head(value) = "$&" -> <<matched>>
            [] Head(value) = "$<" -> before
            [] Head(value) = "$>" -> after
            [] OTHER -> <<Head(value)>>)
         \o ExpandReplacement(Tail(value), matched, before, after)

replace(s, pattern, replacement) ==
    LET i == IndexOf(s, pattern, 1)
    IN  IF i = 0 THEN s
        ELSE LET before == SubSeqFrom(s, 1, i - 1)
                 after == SubSeqFrom(s, i + 1, Len(s))
             IN  before \o ExpandReplacement(replacement, pattern, before, after) \o after

\* A faulty removal that takes a single line terminator off the end
RemoveTrailingEol_One(s) ==
    IF s # <<>> /\ s[Len(s)] \in EolTokens THEN SubSeq(s, 1, Len(s) - 1) ELSE s

\* replace(new RegExp('[\r\n]*$'), '')
RECURSIVE RemoveTrailingEol(_)
RemoveTrailingEol(s) ==
    IF s # <<>> /\ s[Len(s)] \in EolTokens
    THEN RemoveTrailingEol(SubSeq(s, 1, Len(s) - 1)) ELSE s

(***************************************************************************)
(* CdkErrorMapper                                                          *)
(***************************************************************************)

VARIABLE
    templates        \* the templates of the array of rules built by the last
                     \* call that scanned the table, as that call left them

\* The templates of an array of rules, the fields that the lines 157-174
\* assign: for every rule its humanReadableErrorMessage and resolutionMessage
Templates(table) ==
    [k \in 1..Len(table) |->
        [humanReadableErrorMessage |-> table[k].humanReadableErrorMessage,
         resolutionMessage |-> table[k].resolutionMessage]]

\* What a call of getAmplifyError leaves behind: the outcome ("returned" or
\* "thrown"), its value, the input error as the call leaves it, the index
\* of matchingError in the table (0 when no rule was applied), the
\* templates of the array of rules the call built, as the call leaves them
\* (empty when it built none), and the number of times the call invoked
\* formatter.normalizeAmpxCommand
Outcome(o, v, e, k) ==
    [outcome |-> o, value |-> v, error |-> e, matchingError |-> k, templates |-> <<>>,
     formatterCalls |-> 0]

\* The rules whose resolution template embeds the text that
\* formatter.normalizeAmpxCommand returns (line 590): evaluating the array
\* literal of getKnownErrors invokes the formatter once for each of them
formattedRules ==
    { k \in 1..Len(getKnownErrors) :
        \E i \in 1..Len(getKnownErrors[k].resolutionMessage) :
            OccursAt(normalizeAmpxCommand("sandbox secret set"),
                     getKnownErrors[k].resolutionMessage, i) }

\* The outcome of a call that built the array of rules
Scanned(outcome, table) ==
    [outcome EXCEPT !.templates = Templates(table),
                    !.formatterCalls = Cardinality(formattedRules)]

\* A faulty mapper that builds the array of rules once and hands the same
\* array, with the templates as the calls left them, to every call
knownErrorsOfCall_Shared ==
    [k \in 1..Len(getKnownErrors) |->
        [getKnownErrors[k] EXCEPT
            !.humanReadableErrorMessage = templates[k].humanReadableErrorMessage,
            !.resolutionMessage = templates[k].resolutionMessage]]

\* Line 140, this.getKnownErrors(): every call builds the array anew
knownErrorsOfCall == getKnownErrors

Returned(v) == [outcome |-> "returned", value |-> v]
Thrown(v) == [outcome |-> "thrown", value |-> v]

NativeErrorNames == {"TypeError", "TransformError", "ReferenceError", "SyntaxError"}

\* getCDKError: what it returns (NoError for undefined) or throws
getCDKError(error) ==
    IF error.toolkit = "authentication"
    THEN Returned(AmplifyUserError("AuthenticationError",
             <<"Unable to deploy due to insufficient permissions">>,
             <<"Check the Caused by error and ensure you have the necessary permissions">>,
             error.id))
    ELSE IF error.toolkit = "assembly"
    THEN Returned(AmplifyUserError("BackendBuildError",
             <<"Unable to deploy due to CDK Assembly Error">>,
             <<"Check the Caused by error and fix any issues in your backend code">>,
             error.id))
    ELSE IF error.toolkit = "context-provider"
    THEN Returned(AmplifyFault("CDKContextProviderFault",
             <<"Unable to deploy due to CDK Context Provider Error">>,
             Undefined,
             error.id))
    ELSE IF \E errorName \in NativeErrorNames : errorName = error.name
    THEN Thrown(AmplifyUserError("SyntaxError",
             <<"Unable to build the Amplify backend definition.">>,
             <<"Check the Caused by error and fix any issues in your backend code">>,
             error.id))
    ELSE Returned(NoError)

\* this.getKnownErrors().find(knownError => knownError.errorRegex.test(errorMessage)):
\* the index of the first rule from index i on whose pattern matches, 0 if none
\* A faulty find that keeps the last matching rule instead of the first
RECURSIVE findLastFrom(_, _)
findLastFrom(errorMessage, i) ==
    IF i < 1 THEN 0
    ELSE IF Test(knownErrorsOfCall[i].errorRegex, errorMessage) THEN i
    ELSE findLastFrom(errorMessage, i - 1)

find_LastMatch(errorMessage) == findLastFrom(errorMessage, Len(knownErrorsOfCall))

\* A faulty scan that tries the catch-all BackendBuildError rule before the
\* MissingDefineBackendError and FileNotFoundError rules
RECURSIVE findCatchAllFirstFrom(_, _)
findCatchAllFirstFrom(errorMessage, i) ==
    IF i > Len(knownErrorsOfCall) THEN 0
    ELSE IF i = 33 /\ Test(knownErrorsOfCall[35].errorRegex, errorMessage) THEN 35
    ELSE IF Test(knownErrorsOfCall[i].errorRegex, errorMessage) THEN i
    ELSE findCatchAllFirstFrom(errorMessage, i + 1)

findFrom_CatchAllFirst(errorMessage, i) == findCatchAllFirstFrom(errorMessage, i)

RECURSIVE findFrom(_, _)
findFrom(errorMessage, i) ==
    IF i > Len(knownErrorsOfCall) THEN 0
    ELSE IF Test(knownErrorsOfCall[i].errorRegex, errorMessage) THEN i
    ELSE findFrom(errorMessage, i + 1)

find(errorMessage) == findFrom(errorMessage, 1)

\* matchGroups.groups[key]: the text the group captured last
RECURSIVE GroupValue(_, _)
GroupValue(caps, key) ==
    IF caps = <<>> THEN <<"undefined">>
    ELSE IF caps[Len(caps)][1] = key THEN caps[Len(caps)][2]
    ELSE GroupValue(SubSeq(caps, 1, Len(caps) - 1), key)

\* One round of the loop over Object.entries(matchGroups.groups), lines 151-168.
\* m holds humanReadableErrorMessage, resolutionMessage and underlyingError.
\* A faulty round that leaves the underlying error attached
substituteGroup_KeepCause(m, key, value) ==
    LET placeHolder == "{" \o key \o "}"
    IN  [humanReadableErrorMessage |-> replace(m.humanReadableErrorMessage, placeHolder, value),
         resolutionMessage |-> replace(m.resolutionMessage, placeHolder, value),
         underlyingError |-> m.underlyingError]

substituteGroup(m, key, value) ==
    LET placeHolder == "{" \o key \o "}"
    IN  IF includes(m.humanReadableErrorMessage, placeHolder)
           \/ includes(m.resolutionMessage, placeHolder)
        THEN [humanReadableErrorMessage |-> replace(m.humanReadableErrorMessage, placeHolder, value),
              resolutionMessage |-> replace(m.resolutionMessage, placeHolder, value),
              underlyingError |-> "undefined"]
        ELSE m

RECURSIVE substituteGroups(_, _, _)
substituteGroups(m, keys, caps) ==
    IF keys = <<>> THEN m
    ELSE substituteGroups(substituteGroup(m, Head(keys), GroupValue(caps, Head(keys))),
                          Tail(keys), caps)

\* Lines 150-174: the messages and the cause after the loop over the named
\* groups and the removal of a trailing line terminator; start holds them as
\* they are before the loop
substituted(start, errorRegex, matchGroups) ==
    IF GroupCount(errorRegex) + 1 > 1 /\ GroupNames(errorRegex) # <<>>
    THEN [substituteGroups(start, GroupNames(errorRegex), matchGroups[3])
             EXCEPT !.humanReadableErrorMessage = RemoveTrailingEol(@)]
    ELSE start

\* Lines 175-177: the input error after a match with unnamed groups only
underlyingErrorAfter(error, errorMessage, errorRegex, matchGroups) ==
    IF GroupCount(errorRegex) + 1 > 1 /\ GroupNames(errorRegex) = <<>>
    THEN [error EXCEPT !.message = SubSeqFrom(errorMessage, matchGroups[1], matchGroups[2] - 1)]
    ELSE error

\* A faulty construction that builds a user error whatever the rule says
errorOfRule_AlwaysUserError(matchingError, m) ==
    AmplifyUserError(matchingError.errorName, m.humanReadableErrorMessage,
                     m.resolutionMessage, m.underlyingError)

\* Lines 179-197: the error built from the rule and the messages m
errorOfRule(matchingError, m) ==
    IF matchingError.classification = "ERROR"
    THEN AmplifyUserError(matchingError.errorName, m.humanReadableErrorMessage,
                          m.resolutionMessage, m.underlyingError)
    ELSE AmplifyFault(matchingError.errorName, m.humanReadableErrorMessage,
                      m.resolutionMessage, m.underlyingError)

\* Lines 150-197 with the rule, its match and the messages m at hand: the
\* outcome, the input error and the array of rules as the call leaves them
mapSubstituted(error, errorMessage, k, table, matchGroups, m) ==
    Scanned(Outcome("returned", errorOfRule(table[k], m),
                    underlyingErrorAfter(error, errorMessage, table[k].errorRegex, matchGroups), k),
            [table EXCEPT ![k].humanReadableErrorMessage = m.humanReadableErrorMessage,
                          ![k].resolutionMessage = m.resolutionMessage])

\* Lines 146-197 with the match at hand
mapMatched(error, errorMessage, k, table, matchGroups) ==
    mapSubstituted(error, errorMessage, k, table, matchGroups,
        substituted([humanReadableErrorMessage |-> table[k].humanReadableErrorMessage,
                     resolutionMessage |-> table[k].resolutionMessage,
                     underlyingError |-> error.id],
                    table[k].errorRegex, matchGroups))

\* Lines 144-197 for the rule of index k of the array table
mapRule(error, errorMessage, k, table) ==
    mapMatched(error, errorMessage, k, table, Exec(table[k].errorRegex, errorMessage))

\* Lines 144-197: the error built from the rule of index k
mapKnownError(error, errorMessage, k) ==
    mapRule(error, errorMessage, k, knownErrorsOfCall)

\* Lines 140-198 with the stripped message and the index found at hand
scanFound(error, errorMessage, matchingError) ==
    IF matchingError # 0
    THEN mapKnownError(error, errorMessage, matchingError)
    ELSE Scanned(Outcome("returned", fromError(error), error, 0), knownErrorsOfCall)

\* Lines 139-198 with the stripped message at hand
scanStripped(error, errorMessage) ==
    scanFound(error, errorMessage, find(errorMessage))

\* A faulty scan whose fallback wraps the message without its ANSI sequences
scanKnownErrors_StrippedFallback(error) ==
    LET errorMessage == stripANSI(error.message)
        matchingError == find(errorMessage)
    IN  IF matchingError # 0
        THEN mapKnownError(error, errorMessage, matchingError)
        ELSE Scanned(Outcome("returned", fromError([error EXCEPT !.message = errorMessage]), error, 0),
                     knownErrorsOfCall)

\* Lines 139-198: the table scan and the fallback
scanKnownErrors(error) ==
    scanStripped(error, stripANSI(error.message))

ModuleRegister == "does not support module.register()"
FailedToBundle == "Failed to bundle asset"

\* A faulty special case that gives the CI/CD instruction whenever the
\* deployment is not a sandbox
nodeVersionNotSupported_UnlessSandbox(error, deploymentType) ==
    AmplifyUserError("NodeVersionNotSupportedError",
        <<"Unable to deploy due to unsupported node version">>,
        IF deploymentType # "sandbox"
        THEN <<"Upgrade the node version in your CI/CD environment. If you are using Amplify Hosting for your backend builds, you can add 'nvm install 18.x' or 'nvm install 20.x' in your 'amplify.yml' before the 'pipeline-deploy' command">>
        ELSE <<"Upgrade to node '^18.19.0', '^20.6.0,' or '>=22'">>,
        error.id)

\* The error of the module.register() special case, lines 110-125
nodeVersionNotSupported(error, deploymentType) ==
    AmplifyUserError("NodeVersionNotSupportedError",
        <<"Unable to deploy due to unsupported node version">>,
        IF deploymentType = "branch"
        THEN <<"Upgrade the node version in your CI/CD environment. If you are using Amplify Hosting for your backend builds, you can add 'nvm install 18.x' or 'nvm install 20.x' in your 'amplify.yml' before the 'pipeline-deploy' command">>
        ELSE <<"Upgrade to node '^18.19.0', '^20.6.0,' or '>=22'">>,
        error.id)

\* A faulty special case that attaches the input error as cause
cdkAssetBundleError_KeepCause ==
    AmplifyUserError("CDKAssetBundleError",
        <<"CDK failed to bundle your function code">>,
        <<"Check the error messages above for mode details">>,
        "e")

\* The error of the bundler special case, lines 133-136
cdkAssetBundleError ==
    AmplifyUserError("CDKAssetBundleError",
        <<"CDK failed to bundle your function code">>,
        <<"Check the error messages above for mode details">>,
        "undefined")

\* A faulty order: the table is scanned before the bundler special case
mapUnstructuredError_TableFirst(error, deploymentType) ==
    IF includes(error.message, ModuleRegister)
    THEN Outcome("returned", nodeVersionNotSupported(error, deploymentType), error, 0)
    ELSE IF find(stripANSI(error.message)) # 0
    THEN scanKnownErrors(error)
    ELSE IF includes(error.message, FailedToBundle)
    THEN Outcome("returned", cdkAssetBundleError, error, 0)
    ELSE scanKnownErrors(error)

\* Lines 109-198: the special cases, then the table
mapUnstructuredError(error, deploymentType) ==
    IF includes(error.message, ModuleRegister)
    THEN Outcome("returned", nodeVersionNotSupported(error, deploymentType), error, 0)
    ELSE IF includes(error.message, FailedToBundle)
    THEN Outcome("returned", cdkAssetBundleError, error, 0)
    ELSE scanKnownErrors(error)

\* A faulty getAmplifyError without the check for an error that is already
\* structured
getAmplifyError_NoPassthrough(error, deploymentType) ==
    LET amplifyError == fromStderr(error.message)
    IN  IF amplifyError # NoError
        THEN Outcome("returned", amplifyError, error, 0)
        ELSE LET errorFromCDK == getCDKError(error)
             IN  IF errorFromCDK.outcome = "thrown"
                 THEN Outcome("thrown", errorFromCDK.value, error, 0)
                 ELSE IF errorFromCDK.value # NoError
                 THEN Outcome("returned", errorFromCDK.value, error, 0)
                 ELSE mapUnstructuredError(error, deploymentType)

\* getAmplifyError(error, deploymentType)
getAmplifyError(error, deploymentType) ==
    LET amplifyError == fromStderr(error.message)
    IN  IF amplifyError # NoError
        THEN Outcome("returned", amplifyError, error, 0)
        ELSE IF isAmplifyError(error)
        THEN Outcome("returned", error, error, 0)
        ELSE LET errorFromCDK == getCDKError(error)
             IN  IF errorFromCDK.outcome = "thrown"
                 THEN Outcome("thrown", errorFromCDK.value, error, 0)
                 ELSE IF errorFromCDK.value # NoError
                 THEN Outcome("returned", errorFromCDK.value, error, 0)
                 ELSE mapUnstructuredError(error, deploymentType)

(***************************************************************************)
(* Inputs                                                                  *)
(***************************************************************************)

ValidationErrorPrefix == "ValidationError: "
TheStackNamed == "The stack named "
BackendPath == <<"amplify", "/", "backend">>
ManifestPath == <<".", "amplify", "/", "artifacts", "/", "cdk", ".", "out", "/", "manifest.json", "'">>
RoleArn == "arn:aws:iam::123:role/Foo"
OtherRoleArns == {"arn:aws:iam::123:role/Bar", "arn:aws:iam::123:role/Baz"}
UserArn == "arn:aws:sts::123:assumed-role/dev"
StackName == <<"amplify", "-app-main-0a1b">>

\* Text of the pattern User: .. is not authorized to perform: ..
UserMessage(action, tail) ==
    <<"User:", UserArn, " is not authorized to perform:", " ", action>> \o tail

\* Captured texts that read as replacement patterns or as placeholders
OddTexts == {"$&", "$$", "$<", "$>", "{action}", "{resource}"}

\* Pieces of text met before, after or next to any other: nothing, an ANSI
\* sequence, a line terminator, text that no rule knows, the texts of the
\* special cases, serialized errors and the text of two rules.
Joiners ==
    { <<>>,
      <<"\\x1b[31m">>,
      <<"\\n">>,
      <<"Error: ">>,
      <<"some totally unrecognized failure xyz123">>,
      <<ModuleRegister>>,
      <<FailedToBundle>>,
      <<SerializedDeploymentInProgress>>,
      <<SerializedChildProcessError>>,
      <<"Access ", "Denied">>,
      <<" at /p/">> \o BackendPath \o <<".ts:3:1">> }

\* For every rule of the table, texts that its pattern matches
RuleTexts ==
    { <<"ExpiredToken: ", "The security token included in the request is expired">>,
      <<"The security token included in the request is ", "expired">>,
      <<"The security token included in the request is ", "invalid">>,
      <<"The request signature we calculated does not match the signature you provided">>,
      <<"Access ", "\\x1b[0m", "Denied">>,
      <<"Has the environment been bootstrapped">>,
      <<"Is account ", "123456789012", " bootstrapped">>,
      <<"Is this account bootstrapped">>,
      <<"This CDK deployment requires bootstrap stack version ", "6", ", found ", "5",
        ". Please run 'cdk bootstrap'.">>,
      <<"This CDK deployment requires bootstrap stack version ", "6",
        ", but during the confirmation via SSM parameter ", "/cdk-bootstrap/hnb659fds/version",
        " the following error occurred: AccessDeniedException">>,
      <<"This CDK CLI is not compatible with the CDK library used by your application. Please upgrade the CLI to the latest version.">>,
      <<"Command cdk not found">>,
      <<"Role ", RoleArn, " is invalid or cannot be assumed">>,
      <<"Unable to resolve AWS account to use">>,
      <<"EACCES", ": permission denied, open '/x'">>,
      <<"operation not permitted, ", "rename ", "'/p", "/", "synth.lock", ".", "6_1'", " -> '",
        "/p", "/", "synth.lock", "'">>,
      <<"operation not permitted, ", "mkdir '", "/p/", ".", "amplify", "/", "artifacts", "/",
        "cdk", ".", "out", "'">>,
      <<"operation not permitted, ", "unlink", " ", "'/p/synth", ".", "lock", "'">>,
      <<"operation not permitted, ", "open", " ", "'/p/synth", ".", "lock", "'">>,
      <<"Cannot find module ", "'lodash'">>,
      <<"Another CLI ", "(PID=1)", " is currently", " synthing to cdk.out", ".", " ">>,
      <<"Other CLIs ", "(PID=1)", " are currently reading from", " cdk.out", ".", " ">>,
      <<"Function", " ", "exceeds the maximum allowed size of", " ", "262144000", " bytes">>,
      <<"Function", " ", "size must be smaller than", " ", "262144000", " bytes">>,
      <<"Uploaded file must be a non-empty zip">>,
      UserMessage("lambda:GetLayerVersion",
          <<" on resource:", "arn:aws:lambda:layer:1",
            " because no resource-based policy allows the ", "lambda:GetLayerVersion", " action">>),
      <<TheStackNamed>> \o StackName \o
          <<" is in a failed state", ".",
            " You may need to delete it from the AWS console : DELETE_FAILED (The following resource(s) failed to delete: ",
            "[bucket]", ".", " )">>,
      UserMessage("s3:GetObject", <<" on resource:", "arn:aws:s3:::b">>),
      UserMessage("{resource}", <<" on resource:", "arn:aws:s3:::b">>),
      UserMessage("s3:GetObject", <<" because no identity-based policy allows the ", "s3:GetObject", " action">>),
      <<"Found ", "2", " problem(s) with the schema:">>,
      <<"Transform failed with ", "1", " error", ":">>,
      <<"Transform failed with ", "1", " error", ":", "\\n", "x.ts:1:0: ERROR: Unexpected }", "\\n">>,
      <<"Transform failed with ", "2", " error", "s", ":", "\\n", "x.ts:1:0: ERROR: Unexpected }", "\\n",
        "y.ts:2:0: ERROR: Unexpected )", "\\r", "\\n">>,
      <<"Amplify ", "Backend not found in">>,
      <<"Amplify ", "Auth", " must be defined in ", "amplify/auth/resource.ts">>,
      <<"Updates are not allowed for property">>,
      <<"Invalid AttributeDataType input, consider using the provided AttributeDataType enum">>,
      <<"connect ENOMEM ", "10", ".", "0", ".", "0", ".", "1", ":443 - Local (0.0.0.0:0)">>,
      <<"npm error", " ", "code EJSONPARSE", "\\n", "npm error", " ", "path ", "/p", "/", "package.json",
        "\\n", "npm error", " ", "JSON.parse Unexpected token", "\\n">>,
      <<"npm error", " ", "code ENOENT", "\\n", "npm error", " ", "syscall open", "\\n">>,
      <<"npm ERR!", " ", "code ENOENT", "\\r", "\\n">>,
      <<"no such file or directory, ", "open '", "/p/">> \o ManifestPath,
      <<"no such file or directory, ", "open '", "/p/x.json'">>,
      <<"no such file or directory, ", "open '", "/p/">> \o BackendPath \o <<".ts'">>,
      <<"Failed to retrieve backend secret ", "'API_KEY'", " for", " 'app' due to ", "ParameterNotFound">>,
      <<"The code contains one or more errors">>,
      <<"Failed to publish asset">>,
      <<"destroy failed Error: Stack [", "arn:aws:cloudformation:stack/x", "]",
        " cannot be deleted while in status ", "UPDATE_IN_PROGRESS">>,
      <<ValidationErrorPrefix, "Circular dependency between resources: [", "auth, data", "]">>,
      <<"Circular dependency between resources: [", "auth, data", "]">>,
      StackName \o <<" ", "failed: ValidationError: Stack", ":", "arn:aws:cloudformation:stack/x", " is in ",
        "UPDATE_ROLLBACK_FAILED", " state and can not be updated">>,
      <<"failed: ValidationError: Stack", " [">> \o StackName \o
          <<"]", " cannot be deleted while TerminationProtection is enabled">>,
      <<"Deployment failed: ", "Error: boom", "\\n">>,
      <<TheStackNamed>> \o StackName \o <<" failed ", "to deploy:", " ", "UPDATE_ROLLBACK_COMPLETE">>,
      <<TheStackNamed>> \o StackName \o <<" failed ", "creation,", " ", "rolling back">>,
      <<TheStackNamed>> \o StackName \o <<" failed ", "to deploy:", " ", "no such file or directory, ",
                                          "open '", "/p/x.json'">> }
    \cup { <<"Role ", t, " is invalid or cannot be assumed">> : t \in OddTexts }
    \cup { UserMessage(t, <<" on resource:", "arn:aws:s3:::b",
                            " because no identity-based policy allows the ", t, " action">>)
             : t \in {"s3:GetObject", "$&", "{resource}"} }
    \cup { UserMessage("s3:GetObject", <<" on resource:", t,
                            " because no identity-based policy allows the ", "s3:GetObject", " action">>)
             : t \in {"$>", "{action}"} }

\* Messages made of the joiners alone
JoinerMessages == { a \o b : a \in Joiners, b \in Joiners }

\* The messages of the input errors: a piece of text with a joiner before or
\* after it
Messages ==
    JoinerMessages
    \cup { a \o b : a \in RuleTexts, b \in Joiners }
    \cup { b \o a : a \in RuleTexts, b \in Joiners }

\* The errors handed to getAmplifyError, but for their message: plain errors
\* by name, ToolkitErrors by category, and structured errors.
PlainError(n) == ErrorObject("e", FALSE, "none", n, "", <<>>, Undefined, "undefined")
ToolkitError(t) == ErrorObject("e", FALSE, t, "ToolkitError", "", <<>>, Undefined, "undefined")
ErrorShapes ==
    { PlainError(n) : n \in {"Error"} \cup NativeErrorNames }
    \cup { ToolkitError(t) : t \in {"authentication", "assembly", "context-provider", "toolkit"} }
    \cup { ErrorObject("e", TRUE, "none", "StackDoesNotExistError", "ERROR", <<>>,
                       <<"Deploy the backend first.">>, "undefined"),
           ErrorObject("e", TRUE, "none", "UnknownFault", "FAULT", <<>>, Undefined, "undefined") }

\* The input errors: a plain Error with any of the messages, and an error of
\* any shape with a joiner as message
InputErrors ==
    { [PlainError("Error") EXCEPT !.message = m] : m \in Messages }
    \cup { [shape EXCEPT !.message = m] : shape \in ErrorShapes, m \in Joiners }

\* The errors a caller classifies after the first one
OtherErrors ==
    { [PlainError("Error") EXCEPT !.message = <<"Role ", t, " is invalid or cannot be assumed">>]
        : t \in OtherRoleArns }

DeploymentTypes == {"branch", "sandbox", "undefined"}

(***************************************************************************)
(* createGraphqlTypesGenerator and the generator it returns                *)
(***************************************************************************)

VARIABLES
    backendIdentifier,  \* the backendIdentifier handed to the factory
    awsClientProvider,  \* the awsClientProvider handed to the factory
    getOutput,          \* what getOutput of the backend output client does
    generator,          \* outcome of createGraphqlTypesGenerator
    generated           \* outcome of generator.generateTypes

generatorVars == <<backendIdentifier, awsClientProvider, getOutput, generator, generated>>

Null == "null"

\* BackendOutputClientErrorType, the codes the generator is called with
BackendOutputClientErrorTypes ==
    {"DEPLOYMENT_IN_PROGRESS", "NO_STACK_FOUND", "NO_OUTPUTS_FOUND", "CREDENTIALS_ERROR",
     "ACCESS_DENIED"}

\* The stacks a generator is created for
StackNames == {"foo", "stackThatDoesNotExist", "stackThatDoesNotHaveOutputs", "randomStack"}

\* What getOutput does: it returns the outputs or throws a
\* BackendOutputClientError of one of the types
OutputBehaviours == {"returns"} \cup BackendOutputClientErrorTypes

NotGenerated == [outcome |-> "none", kind |-> "", message |-> "", resolution |-> ""]

\* A faulty factory that does not look at awsClientProvider
createGraphqlTypesGenerator_NoProviderCheck(identifier, provider) ==
    IF identifier = Null THEN "thrown" ELSE "created"

\* createGraphqlTypesGenerator({ backendIdentifier, awsClientProvider }):
\* throws or returns a generator
createGraphqlTypesGenerator(identifier, provider) ==
    IF identifier = Null \/ provider = Null THEN "thrown" ELSE "created"

\* The message of the AmplifyUserError for a BackendOutputClientError
backendOutputErrorMessage(type) ==
    CASE type = "DEPLOYMENT_IN_PROGRESS" -> "Deployment is currently in progress."
      [] type = "NO_STACK_FOUND" -> "Stack does not exist."
      [] type = "NO_OUTPUTS_FOUND" -> "Amplify outputs not found in stack metadata"
      [] type = "CREDENTIALS_ERROR" -> "Unable to get backend outputs due to invalid credentials."
      [] type = "ACCESS_DENIED" -> "Unable to get backend outputs due to insufficient permissions."

\* A faulty generateTypes that lets the BackendOutputClientError through
generateTypes_Rethrow(behaviour) ==
    IF behaviour \in BackendOutputClientErrorTypes
    THEN [outcome |-> "rejected", kind |-> "BackendOutputClientError",
          message |-> behaviour, resolution |-> ""]
    ELSE [outcome |-> "resolved", kind |-> "", message |-> "", resolution |-> ""]

\* generator.generateTypes({ target }): the promise resolves, or rejects
\* with an AmplifyUserError that has a message and a resolution
generateTypes(behaviour) ==
    IF behaviour \in BackendOutputClientErrorTypes
    THEN [outcome |-> "rejected", kind |-> "AmplifyUserError",
          message |-> backendOutputErrorMessage(behaviour), resolution |-> "defined"]
    ELSE [outcome |-> "resolved", kind |-> "", message |-> "", resolution |-> ""]

\* No generator is at work
GeneratorIdle ==
    /\ backendIdentifier = Null
    /\ awsClientProvider = Null
    /\ getOutput = "returns"
    /\ generator = "none"
    /\ generated = NotGenerated

(***************************************************************************)
(* The ESLint plugin: its rules and its recommended configuration          *)
(***************************************************************************)

VARIABLES
    lintFile,    \* the path of the file that is linted, one entry per segment
    lintConfig   \* the rule severities ESLint computes for lintFile

lintVars == <<lintFile, lintConfig>>

\* The keys of the exported rules map
rules ==
    {"amplify-error-name", "amplify-error-no-instanceof",
     "backend-output-client-error-no-instanceof", "no-empty-catch",
     "prefer-amplify-errors", "no-amplify-errors", "propagate-error-cause"}

\* plugins: ['@aws-amplify/amplify-backend-rules']
plugins == <<"@aws-amplify/amplify-backend-rules">>

\* The id under which ESLint knows the rule `key` of the plugin
RuleId(plugin, key) == plugin \o "/" \o key

\* A path or a pattern is a sequence of segments, and a segment is the
\* sequence of its parts between dots: a/b.test.ts is
\* << <<"a">>, <<"b", "test", "ts">> >>
SrcGlob(package) == << <<"packages">>, <<package>>, <<"src">>, <<"**">> >>

\* The override for prefer-amplify-errors without its excludedFiles
preferAmplifyErrorsOverride_NoExcluded ==
    [files |-> {SrcGlob("sandbox"), SrcGlob("backend-ai"), SrcGlob("backend-auth"),
                SrcGlob("backend-deployer"), SrcGlob("create-amplify"),
                SrcGlob("form-generator"), SrcGlob("model-generator"),
                SrcGlob("schema-generator")},
     excludedFiles |-> {},
     rules |-> ("@aws-amplify/amplify-backend-rules/prefer-amplify-errors" :> "error")]

\* overrides[0] of configs.recommended
preferAmplifyErrorsOverride ==
    [files |-> {SrcGlob("sandbox"), SrcGlob("backend-ai"), SrcGlob("backend-auth"),
                SrcGlob("backend-deployer"), SrcGlob("create-amplify"),
                SrcGlob("form-generator"), SrcGlob("model-generator"),
                SrcGlob("schema-generator")},
     excludedFiles |-> {<< <<"**">>, <<"*", "test", "ts">> >>},
     rules |-> ("@aws-amplify/amplify-backend-rules/prefer-amplify-errors" :> "error")]

\* overrides[1] of configs.recommended
noAmplifyErrorsOverride ==
    [files |-> {SrcGlob("auth-construct"), SrcGlob("ai-constructs"),
                SrcGlob("backend-output-storage"), SrcGlob("deployed-backend-client")},
     excludedFiles |-> {},
     rules |-> ("@aws-amplify/amplify-backend-rules/no-amplify-errors" :> "error")]

\* configs.recommended
recommended ==
    [plugins |-> plugins,
     rules |->
        ("@aws-amplify/amplify-backend-rules/amplify-error-name" :> "error")
        @@ ("@aws-amplify/amplify-backend-rules/amplify-error-no-instanceof" :> "error")
        @@ ("@aws-amplify/amplify-backend-rules/backend-output-client-error-no-instanceof"
                :> "error")
        @@ ("@aws-amplify/amplify-backend-rules/no-empty-catch" :> "error")
        @@ ("@aws-amplify/amplify-backend-rules/prefer-amplify-errors" :> "off")
        @@ ("@aws-amplify/amplify-backend-rules/no-amplify-errors" :> "off")
        @@ ("@aws-amplify/amplify-backend-rules/propagate-error-cause" :> "error"),
     overrides |-> <<preferAmplifyErrorsOverride, noAmplifyErrorsOverride>>]

\* Does one segment of a pattern match one segment of a path? A leading *
\* stands for any text, dots included, in front of the remaining parts
SegmentMatches(pattern, segment) ==
    IF Head(pattern) = "*"
    THEN /\ Len(segment) >= Len(pattern)
         /\ SubSeq(segment, Len(segment) - Len(pattern) + 2, Len(segment)) = Tail(pattern)
    ELSE pattern = segment

\* Does a glob match a path? ** stands for any number of segments
RECURSIVE GlobMatches(_, _)
GlobMatches(pattern, path) ==
    IF pattern = <<>> THEN path = <<>>
    ELSE IF Head(pattern) = <<"**">>
         THEN \/ GlobMatches(Tail(pattern), path)
              \/ path # <<>> /\ GlobMatches(pattern, Tail(path))
         ELSE /\ path # <<>>
              /\ SegmentMatches(Head(pattern), Head(path))
              /\ GlobMatches(Tail(pattern), Tail(path))

\* ESLint applies an override to a file that matches one of its files and
\* none of its excludedFiles
OverrideApplies(override, path) ==
    /\ \E pattern \in override.files : GlobMatches(pattern, path)
    /\ ~ \E pattern \in override.excludedFiles : GlobMatches(pattern, path)

\* The severities for a file: the top-level rules, then the rules of every
\* override that applies, a later one winning over an earlier one
RECURSIVE ApplyOverrides(_, _, _)
ApplyOverrides(severities, overrides, path) ==
    IF overrides = <<>> THEN severities
    ELSE ApplyOverrides(IF OverrideApplies(Head(overrides), path)
                        THEN Head(overrides).rules @@ severities
                        ELSE severities,
                        Tail(overrides), path)

ConfigFor(config, path) ==
    [resolved |-> TRUE, rules |-> ApplyOverrides(config.rules, config.overrides, path)]

NoConfig == [resolved |-> FALSE, rules |-> [id \in {} |-> "off"]]

\* The packages of the repository that the overrides name, and two others
LintedPackages ==
    {"sandbox", "backend-ai", "backend-auth", "backend-deployer", "create-amplify",
     "form-generator", "model-generator", "schema-generator", "auth-construct",
     "ai-constructs", "backend-output-storage", "deployed-backend-client", "cli",
     "eslint-rules"}

\* The files that are linted
LintedNames == {<<"a", "ts">>, <<"a", "test", "ts">>, <<"", "test", "ts">>, <<"test", "ts">>,
                <<"a", "js">>}

LintedFiles ==
    { << <<root>>, <<package>>, <<dir>> >> \o sub \o <<name>> :
        root \in {"packages", "scripts"}, package \in LintedPackages,
        dir \in {"src", "lib"}, sub \in {<<>>, << <<"x">> >>}, name \in LintedNames }

\* No file is linted
LintIdle ==
    /\ lintFile = <<>>
    /\ lintConfig = NoConfig

(***************************************************************************)
(* The state machine: a caller holds an error and classifies it            *)
(***************************************************************************)

\* Number of calls of getAmplifyError with the same error object
MaxCalls == 2

\* Number of other error objects the caller moves on to
MaxOthers == 1

VARIABLES
    error,           \* the error object handed to getAmplifyError, as it is now
    before,          \* the same object as it was when the last call began
    deploymentType,  \* the deploymentType argument
    result,          \* outcome, value and rule of the last call with error
    second,          \* outcome and value of the call with the value of result
    calls,           \* number of calls with error so far
    others           \* number of error objects classified before error

mapperVars == <<error, before, deploymentType, result, second, calls, others, templates>>

vars == <<mapperVars, generatorVars, lintVars>>

NoResult == [outcome |-> "none", value |-> NoError, matchingError |-> 0, formatterCalls |-> 0]

\* What the caller keeps of a call
ResultOf(r) ==
    [outcome |-> r.outcome, value |-> r.value, matchingError |-> r.matchingError,
     formatterCalls |-> r.formatterCalls]

\* The templates of the array of rules built last, after a call
TemplatesAfter(r) == IF r.templates = <<>> THEN templates ELSE r.templates

Init ==
    /\ error \in InputErrors
    /\ before = error
    /\ deploymentType \in DeploymentTypes
    /\ result = NoResult
    /\ second = NoResult
    /\ calls = 0
    /\ others = 0
    /\ templates = Templates(getKnownErrors)
    /\ GeneratorIdle
    /\ LintIdle

\* result = mapper.getAmplifyError(error, deploymentType), returned or thrown
Classify ==
    /\ calls < MaxCalls
    /\ \E r \in {getAmplifyError(error, deploymentType)} :
           /\ result' = ResultOf(r)
           /\ error' = r.error
           /\ templates' = TemplatesAfter(r)
    /\ before' = error
    /\ second' = NoResult
    /\ calls' = calls + 1
    /\ UNCHANGED <<deploymentType, others, generatorVars, lintVars>>

\* second = mapper.getAmplifyError(result, deploymentType)
Reclassify ==
    /\ result.outcome = "returned"
    /\ second = NoResult
    /\ \E r \in {getAmplifyError(result.value, deploymentType)} :
           /\ second' = ResultOf(r)
           /\ templates' = TemplatesAfter(r)
    /\ UNCHANGED <<error, before, deploymentType, result, calls, others, generatorVars, lintVars>>

\* The caller moves on to another error object and classifies it with the
\* same mapper: result = mapper.getAmplifyError(other, deploymentType)
ClassifyOther ==
    /\ calls >= 1
    /\ others < MaxOthers
    /\ \E other \in OtherErrors :
         \E r \in {getAmplifyError(other, deploymentType)} :
             /\ result' = ResultOf(r)
             /\ error' = r.error
             /\ templates' = TemplatesAfter(r)
             /\ before' = other
    /\ second' = NoResult
    /\ calls' = 1
    /\ others' = others + 1
    /\ UNCHANGED <<deploymentType, generatorVars, lintVars>>

Next == Classify \/ Reclassify \/ ClassifyOther

Spec == Init /\ [][Next]_vars

(***************************************************************************)
(* The state machine of the types generator: a caller creates a generator  *)
(* and generates types with it                                             *)
(***************************************************************************)

\* No mapper is at work
MapperIdle ==
    /\ error = NoError
    /\ before = NoError
    /\ deploymentType = "undefined"
    /\ result = NoResult
    /\ second = NoResult
    /\ calls = 0
    /\ others = 0
    /\ templates = <<>>

GeneratorInit ==
    /\ backendIdentifier \in {Null} \cup StackNames
    /\ awsClientProvider \in {Null, "provided"}
    /\ getOutput \in OutputBehaviours
    /\ generator = "none"
    /\ generated = NotGenerated
    /\ MapperIdle
    /\ LintIdle

\* generator = createGraphqlTypesGenerator({ backendIdentifier, awsClientProvider })
CreateGenerator ==
    /\ generator = "none"
    /\ generator' = createGraphqlTypesGenerator(backendIdentifier, awsClientProvider)
    /\ UNCHANGED <<backendIdentifier, awsClientProvider, getOutput, generated, mapperVars, lintVars>>

\* await generator.generateTypes({ target: 'json' })
GenerateTypes ==
    /\ generator = "created"
    /\ generated = NotGenerated
    /\ generated' = generateTypes(getOutput)
    /\ UNCHANGED <<backendIdentifier, awsClientProvider, getOutput, generator, mapperVars, lintVars>>

GeneratorNext == CreateGenerator \/ GenerateTypes

GeneratorSpec == GeneratorInit /\ [][GeneratorNext]_vars

(***************************************************************************)
(* The state machine of the linter: ESLint computes the configuration of   *)
(* a file from configs.recommended                                         *)
(***************************************************************************)

LintInit ==
    /\ lintFile \in LintedFiles
    /\ lintConfig = NoConfig
    /\ MapperIdle
    /\ GeneratorIdle

\* ESLint computes the configuration of lintFile
ResolveConfig ==
    /\ ~lintConfig.resolved
    /\ lintConfig' = ConfigFor(recommended, lintFile)
    /\ UNCHANGED <<lintFile, mapperVars, generatorVars>>

LintNext == ResolveConfig

LintSpec == LintInit /\ [][LintNext]_vars

(***************************************************************************)
(* The error kinds                                                         *)
(***************************************************************************)

CDKDeploymentError ==
    { "AccessDeniedError", "AuthenticationError", "AppSyncResolverSyntaxError",
      "BackendBuildError", "BootstrapNotDetectedError", "BootstrapDetectionError",
      "BootstrapOutdatedError", "CDKAssetPublishError", "CDKAssetBundleError",
      "CDKNotFoundError", "CDKResolveAWSAccountError", "CDKVersionMismatchError",
      "CFNUpdateNotSupportedError", "CloudformationResourceCircularDependencyError",
      "CloudformationStackCircularDependencyError", "CloudFormationDeletionError",
      "CloudFormationDeploymentError", "CommonNPMError",
      "DeleteFailedWhileDeploymentInProgressError", "FilePermissionsError",
      "MissingDefineBackendError", "MultipleSandboxInstancesError", "ESBuildError",
      "ExpiredTokenError", "FileConventionError", "FileNotFoundError",
      "ModuleNotFoundError", "InsufficientMemorySpaceError",
      "InvalidOrCannotAssumeRoleError", "InvalidPackageJsonError", "SchemaError",
      "SecretNotSetError", "SyntaxError", "GetLambdaLayerVersionError",
      "LambdaEmptyZipFault", "LambdaMaxSizeExceededError", "RequestSignatureError" }

(***************************************************************************)
(* Properties                                                              *)
(***************************************************************************)

\* A call with error has happened; before is its input, result its outcome.
Called == result.outcome # "none"

\* The text carries a serialized structured error.
HasEmbedded(m) == \E k \in 1..Len(m) : m[k] \in SerializedTokens

TypedToolkitCategories == {"authentication", "assembly", "context-provider"}

\* The input is answered by none of the branches 1, 2 and 3.
PastStructuredBranches(e) ==
    /\ ~HasEmbedded(e.message)
    /\ ~e.amplify
    /\ e.toolkit \notin TypedToolkitCategories
    /\ e.name \notin NativeErrorNames

\* The input reaches the table scan.
ReachesTable(e) ==
    /\ PastStructuredBranches(e)
    /\ ~Contains(e.message, ModuleRegister)
    /\ ~Contains(e.message, FailedToBundle)

\* The indices of the rules whose pattern matches the message without its
\* ANSI sequences.
MatchingRules(m) ==
    { i \in 1..Len(getKnownErrors) : Test(getKnownErrors[i].errorRegex, stripANSI(m)) }

Least(S) == CHOOSE i \in S : \A j \in S : i <= j

\* The placeholders a rule's templates can use: one per named group.
PlaceHolders(rule) ==
    { "{" \o GroupNames(rule.errorRegex)[k] \o "}" : k \in 1..Len(GroupNames(rule.errorRegex)) }

\* A template without its placeholders.
RECURSIVE TemplateText(_, _)
TemplateText(template, rule) ==
    IF template = <<>> THEN <<>>
    ELSE (IF Head(template) \in PlaceHolders(rule) THEN <<>> ELSE <<Head(template)>>)
         \o TemplateText(Tail(template), rule)

\* The tokens of a occur in b, in the same order.
RECURSIVE IsSubsequence(_, _)
IsSubsequence(a, b) ==
    IF a = <<>> THEN TRUE
    ELSE IF b = <<>> THEN FALSE
    ELSE IF Head(a) = Head(b) THEN IsSubsequence(Tail(a), Tail(b))
    ELSE IsSubsequence(a, Tail(b))

\* The value is an error built from the rule: its kind and severity are the
\* rule's, its message and resolution are the rule's templates with text in
\* the place of the placeholders.
BuiltFromRule(value, rule) ==
    /\ value.id = "new"
    /\ value.name = rule.errorName
    /\ value.classification = rule.classification
    /\ IsSubsequence(TemplateText(rule.humanReadableErrorMessage, rule), value.message)
    /\ IsSubsequence(TemplateText(rule.resolutionMessage, rule), value.resolution)
    /\ PlaceHolders(rule) = {} =>
          /\ value.message = rule.humanReadableErrorMessage
          /\ value.resolution = rule.resolutionMessage

\* C1 (as claimed): getAmplifyError never throws, whatever the message, the
\* name of the error and the deploymentType.
C1_NeverThrows == result.outcome # "thrown"

\* The value produced by branch 3 for a typed toolkit error or a native name
FromToolkitBranch(value) ==
    /\ value.id = "new"
    /\ value.name \in {"AuthenticationError", "BackendBuildError", "CDKContextProviderFault", "SyntaxError"}
    /\ value.message[1] \in {"Unable to deploy due to insufficient permissions",
                              "Unable to deploy due to CDK Assembly Error",
                              "Unable to deploy due to CDK Context Provider Error",
                              "Unable to build the Amplify backend definition."}
    /\ value.cause = "e"

\* C2: the value getAmplifyError produces is that of the first branch whose
\* condition holds, in the order: serialized error in the message, input
\* already structured, typed toolkit error or native name,
\* module.register(), bundler failure, rule table, fallback.
C2_BranchPriority ==
    Called =>
        LET m == before.message
            v == result.value
        IN  IF HasEmbedded(m) THEN v.id \in SerializedTokens /\ Contains(m, v.id)
            ELSE IF before.amplify THEN v = before
            ELSE IF before.toolkit \in TypedToolkitCategories \/ before.name \in NativeErrorNames
            THEN FromToolkitBranch(v)
            ELSE IF Contains(m, ModuleRegister)
            THEN v.id = "new" /\ v.name = "NodeVersionNotSupportedError"
            ELSE IF Contains(m, FailedToBundle)
            THEN v.id = "new" /\ v.name = "CDKAssetBundleError" /\ v.cause = "undefined"
            ELSE IF MatchingRules(m) # {}
            THEN \E i \in MatchingRules(m) : BuiltFromRule(v, getKnownErrors[i])
            ELSE v.id = "new" /\ v.name = "unknown"

\* C2 happens: a message with 'Failed to bundle asset' and 'Access Denied'
\* was answered by the bundler special case.
C2_Witness ==
    /\ Called
    /\ PastStructuredBranches(before)
    /\ Contains(before.message, FailedToBundle)
    /\ result.value.name = "CDKAssetBundleError"
    /\ Test(getKnownErrors[3].errorRegex, stripANSI(before.message))

\* C3 (as claimed): getAmplifyError of a value that getAmplifyError returned
\* returns that value itself, unchanged.
C3_Idempotent ==
    second.outcome # "none"
        => second.outcome = "returned" /\ second.value = result.value

\* C3 (amended): getAmplifyError of a returned value whose message carries
\* no serialized structured error returns that value itself, unchanged.
C3_IdempotentWithoutEmbedded ==
    (second.outcome # "none" /\ ~HasEmbedded(result.value.message))
        => second.outcome = "returned" /\ second.value = result.value

\* C3 happens: an error built from a rule was fed back and came back as is.
C3_Witness ==
    /\ second.outcome = "returned"
    /\ result.value.id = "new"
    /\ result.value.name = "AccessDeniedError"
    /\ second.value = result.value

\* C4: when the message reaches the table scan and several rules match, the
\* rule applied is the matching rule of least index and the error returned
\* is built from it.
C4_FirstMatchWins ==
    (Called /\ ReachesTable(before))
        => LET matching == MatchingRules(before.message)
           IN  matching # {}
                 => /\ result.outcome = "returned"
                    /\ result.matchingError = Least(matching)
                    /\ BuiltFromRule(result.value, getKnownErrors[Least(matching)])

\* C4 happens: a message matched by two rules of different kinds was
\* classified.
C4_Witness ==
    /\ Called
    /\ ReachesTable(before)
    /\ LET matching == MatchingRules(before.message)
       IN  \E i, j \in matching :
          /\ i < j
          /\ getKnownErrors[i].errorName # getKnownErrors[j].errorName
          /\ result.value.name = getKnownErrors[i].errorName

\* C5: an input that no branch and no rule answers yields kind 'unknown',
\* severity FAULT and the message of the input verbatim.
C5_Fallback ==
    (Called /\ ReachesTable(before) /\ MatchingRules(before.message) = {})
        => /\ result.outcome = "returned"
           /\ result.value.name = "unknown"
           /\ result.value.classification = "FAULT"
           /\ result.value.message = before.message

\* C5 happens: an unrecognized message with an ANSI sequence was classified.
C5_Witness ==
    /\ Called
    /\ ReachesTable(before)
    /\ \E k \in 1..Len(before.message) : before.message[k] \in AnsiTokens
    /\ Contains(before.message, "some totally unrecognized failure xyz123")
    /\ result.value.name = "unknown"
    /\ MatchingRules(before.message) = {}

\* C6 (as claimed): for an error named SyntaxError, TypeError,
\* ReferenceError or TransformError that branches 1 and 2 and the typed
\* toolkit categories do not answer, getAmplifyError returns an error of
\* kind 'SyntaxError', severity USER_ERROR, with the input as cause.
C6_NativeNameReturnsSyntaxError ==
    (/\ Called
     /\ before.name \in NativeErrorNames
     /\ ~HasEmbedded(before.message)
     /\ ~before.amplify
     /\ before.toolkit \notin TypedToolkitCategories)
        => /\ result.outcome = "returned"
           /\ result.value.name = "SyntaxError"
           /\ result.value.classification = "ERROR"
           /\ result.value.cause = "e"

\* The closed taxonomy of error kinds.
ClosedTaxonomy == CDKDeploymentError \cup {"NodeVersionNotSupportedError", "unknown"}

\* C7 (as claimed): the kind of every error that getAmplifyError constructs
\* (branches 3, 3a, 4 and 5) is in the closed taxonomy.
C7_ClosedTaxonomy ==
    (Called /\ ~HasEmbedded(before.message) /\ ~before.amplify)
        => result.value.name \in ClosedTaxonomy

\* C8 (as claimed): each typed toolkit category is mapped to a fixed error
\* with kind, severity, message and resolution all defined and the input as
\* cause; any other toolkit error goes on to the special cases and the table.
C8_ToolkitMapping ==
    (Called /\ ~HasEmbedded(before.message) /\ ~before.amplify)
        => LET v == result.value
               complete == /\ result.outcome = "returned"
                           /\ v.message # Undefined
                           /\ v.resolution # Undefined
                           /\ v.cause = "e"
           IN  /\ before.toolkit = "authentication"
                    => complete /\ v.name = "AuthenticationError" /\ v.classification = "ERROR"
               /\ before.toolkit = "assembly"
                    => complete /\ v.name = "BackendBuildError" /\ v.classification = "ERROR"
               /\ before.toolkit = "context-provider"
                    => complete /\ v.classification = "FAULT"
               /\ before.toolkit = "toolkit"
                    => ~FromToolkitBranch(v)

\* C9 (as claimed): when the matched rule has no named groups, the cause of
\* the returned error is the input error with its message text intact.
C9_CausePreserved ==
    (/\ Called
     /\ result.matchingError # 0
     /\ GroupNames(getKnownErrors[result.matchingError].errorRegex) = <<>>)
        => /\ result.value.cause = "e"
           /\ error.message = before.message

\* C10: for a matched rule, the returned error has no cause if and only if a
\* named group of the rule's pattern is referenced by a placeholder of the
\* message or of the resolution template; otherwise the input is the cause.
C10_CauseSuppression ==
    (Called /\ result.matchingError # 0)
        => LET rule == getKnownErrors[result.matchingError]
               referenced == \E p \in PlaceHolders(rule) :
                                \/ Contains(rule.humanReadableErrorMessage, p)
                                \/ Contains(rule.resolutionMessage, p)
           IN  /\ result.value.cause = "undefined" <=> referenced
               /\ result.value.cause \in {"undefined", "e"}

\* C10 happens: a rule with a referenced named group matched and the error
\* returned has no cause.
C10_Witness ==
    /\ Called
    /\ result.matchingError = 9
    /\ result.value.name = "InvalidOrCannotAssumeRoleError"
    /\ result.value.cause = "undefined"

\* The text t occurs in the text s.
Occurs(t, s) == \E i \in 1..Len(s) : OccursAt(t, s, i)

\* The text without its ANSI sequences.
WithoutAnsi(s) == SelectSeq(s, LAMBDA t : t \notin AnsiTokens)

\* None of the rules 1..n matches the text.
NoRuleUpTo(n, s) == \A j \in 1..n : ~Test(getKnownErrors[j].errorRegex, s)

\* Texts X of a message 'Role X is invalid or cannot be assumed'
RoleTexts == {RoleArn} \cup OtherRoleArns \cup OddTexts

RoleMessage(X) == <<"Role ", X, " is invalid or cannot be assumed">>

\* C11 (as claimed): for every text X, a message containing 'Role X is invalid
\* or cannot be assumed' that reaches the table scan and that no earlier rule
\* matches yields InvalidOrCannotAssumeRoleError, a user error whose message
\* is exactly 'Role X is invalid or cannot be assumed' and that has no cause.
C11_RolePlaceholder ==
    \A X \in RoleTexts :
        (/\ Called
         /\ ReachesTable(before)
         /\ Occurs(RoleMessage(X), WithoutAnsi(before.message))
         /\ NoRuleUpTo(8, WithoutAnsi(before.message)))
            => /\ result.outcome = "returned"
               /\ result.value.name = "InvalidOrCannotAssumeRoleError"
               /\ result.value.classification = "ERROR"
               /\ result.value.message = RoleMessage(X)
               /\ result.value.cause = "undefined"

\* C12 (as claimed): when a rule is applied, no placeholder of a named group
\* that the rule's templates reference is left in the returned message or in
\* the returned resolution.
C12_FullSubstitution ==
    (Called /\ result.matchingError # 0)
        => LET rule == getKnownErrors[result.matchingError]
           IN  \A p \in PlaceHolders(rule) :
                  (Contains(rule.humanReadableErrorMessage, p) \/ Contains(rule.resolutionMessage, p))
                     => /\ ~Contains(result.value.message, p)
                        /\ ~Contains(result.value.resolution, p)

\* The message carries an ANSI sequence.
HasAnsi(m) == \E k \in 1..Len(m) : m[k] \in AnsiTokens

\* C13: a message reaching the table scan whose text, read without its ANSI
\* sequences, contains 'Access Denied' and is matched by no earlier rule is
\* classified as AccessDeniedError, with the same result as the message
\* without the sequences.
C13_AnsiStripped ==
    (/\ Called
     /\ ReachesTable(before)
     /\ HasAnsi(before.message)
     /\ Occurs(<<"Access ", "Denied">>, WithoutAnsi(before.message))
     /\ NoRuleUpTo(2, WithoutAnsi(before.message)))
        => /\ result.outcome = "returned"
           /\ result.matchingError = 3
           /\ result.value.name = "AccessDeniedError"
           /\ result.value.classification = "ERROR"
           /\ result.value =
                getAmplifyError([before EXCEPT !.message = WithoutAnsi(@)], deploymentType).value

\* An ANSI sequence stands between 'Access ' and 'Denied', and the error is
\* classified as AccessDeniedError.
C13_Witness ==
    /\ Called
    /\ ReachesTable(before)
    /\ Occurs(<<"Access ", "\\x1b[0m", "Denied">>, before.message)
    /\ result.matchingError = 3
    /\ result.value.name = "AccessDeniedError"

\* The two resolutions of NodeVersionNotSupportedError
CiCdNodeUpgrade ==
    <<"Upgrade the node version in your CI/CD environment. If you are using Amplify Hosting for your backend builds, you can add 'nvm install 18.x' or 'nvm install 20.x' in your 'amplify.yml' before the 'pipeline-deploy' command">>

DirectNodeUpgrade == <<"Upgrade to node '^18.19.0', '^20.6.0,' or '>=22'">>

\* C14: an input past the branches 1 to 3 whose message contains 'does not
\* support module.register()' yields NodeVersionNotSupportedError, a user
\* error with the input as cause; its resolution is the CI/CD instruction
\* exactly when deploymentType is 'branch', the direct instruction otherwise.
C14_NodeVersionByContext ==
    (/\ Called
     /\ PastStructuredBranches(before)
     /\ Contains(before.message, ModuleRegister))
        => /\ result.outcome = "returned"
           /\ result.value.name = "NodeVersionNotSupportedError"
           /\ result.value.classification = "ERROR"
           /\ result.value.cause = before.id
           /\ error = before
           /\ result.value.resolution \in {CiCdNodeUpgrade, DirectNodeUpgrade}
           /\ result.value.resolution = CiCdNodeUpgrade <=> deploymentType = "branch"

\* The module.register() case without a deploymentType: the direct
\* instruction.
C14_Witness ==
    /\ Called
    /\ PastStructuredBranches(before)
    /\ Contains(before.message, ModuleRegister)
    /\ deploymentType = "undefined"
    /\ result.value.name = "NodeVersionNotSupportedError"
    /\ result.value.resolution = DirectNodeUpgrade

\* C15: an input past the branches 1 to 3 whose message contains 'Failed to
\* bundle asset' and not the module.register() text yields
\* CDKAssetBundleError, a user error without cause, whatever rule of the
\* table the message matches.
C15_BundlerSpecialCase ==
    (/\ Called
     /\ PastStructuredBranches(before)
     /\ ~Contains(before.message, ModuleRegister)
     /\ Contains(before.message, FailedToBundle))
        => /\ result.outcome = "returned"
           /\ result.value.name = "CDKAssetBundleError"
           /\ result.value.classification = "ERROR"
           /\ result.value.cause = "undefined"
           /\ result.matchingError = 0

\* A message with the bundler text that the AccessDeniedError rule matches
\* as well, classified as CDKAssetBundleError.
C15_Witness ==
    /\ Called
    /\ PastStructuredBranches(before)
    /\ Contains(before.message, FailedToBundle)
    /\ Test(getKnownErrors[3].errorRegex, WithoutAnsi(before.message))
    /\ result.value.name = "CDKAssetBundleError"
    /\ result.value.cause = "undefined"

\* C16 (as claimed): a call leaves its input error as it was: message, name
\* and cause of the error object are the same after the call as before.
C16_InputUnchanged ==
    Called => /\ error.message = before.message
              /\ error.name = before.name
              /\ error.cause = before.cause

\* Kind, severity, message and resolution of what a call produced
Classification(r) ==
    <<r.outcome, r.value.name, r.value.classification, r.value.message, r.value.resolution>>

\* C17 (as claimed): a further call with the same error object and the same
\* deploymentType produces an error of the same kind, severity, message and
\* resolution as the call before it.
C17_Deterministic ==
    [][(calls >= 1 /\ calls' = calls + 1) => Classification(result') = Classification(result)]_vars

\* C18: a call is served from the templates of the table as written, whatever
\* the calls before it: the error it returns is built from the rule applied,
\* and a message 'Role B is invalid or cannot be assumed', classified after
\* other errors, yields that same text as message, with B in it.
C18_TableUnchangedAcrossCalls ==
    (Called /\ result.matchingError # 0)
        => /\ BuiltFromRule(result.value, getKnownErrors[result.matchingError])
           /\ \A B \in OtherRoleArns :
                 before.message = RoleMessage(B)
                    => /\ result.value.message = RoleMessage(B)
                       /\ result.value.resolution = getKnownErrors[9].resolutionMessage
                       /\ result.value.cause = "undefined"

\* After a call that applied a rule to another error, a message with role B
\* yields the message with B.
C18_Witness ==
    /\ others >= 1
    /\ result.matchingError = 9
    /\ \E B \in OtherRoleArns :
          /\ before.message = RoleMessage(B)
          /\ result.value.message = RoleMessage(B)

\* C19: a message reaching the table scan that contains "no such file or
\* directory, open '..amplify/artifacts/cdk.out/manifest.json'" and that no
\* earlier rule matches is classified as MissingDefineBackendError, also when
\* it contains 'amplify/backend'.
C19_MissingDefineBackendNotShadowed ==
    (/\ Called
     /\ ReachesTable(before)
     /\ Test(getKnownErrors[33].errorRegex, WithoutAnsi(before.message))
     /\ NoRuleUpTo(32, WithoutAnsi(before.message)))
        => /\ result.outcome = "returned"
           /\ result.matchingError = 33
           /\ result.value.name = "MissingDefineBackendError"

\* The manifest text together with 'amplify/backend', classified as
\* MissingDefineBackendError although the rules 34 and 35 match as well.
C19_Witness ==
    /\ Called
    /\ ReachesTable(before)
    /\ Occurs(<<"no such file or directory, ", "open '", "/p/">> \o ManifestPath, before.message)
    /\ Occurs(BackendPath, before.message)
    /\ Test(getKnownErrors[34].errorRegex, WithoutAnsi(before.message))
    /\ Test(getKnownErrors[35].errorRegex, WithoutAnsi(before.message))
    /\ result.value.name = "MissingDefineBackendError"

\* The catch-all rules: /amplify\/backend/ and the generic deployment failure
CatchAllRules == {35, 44}

\* C20 (as claimed): a message reaching the table scan that matches a rule
\* other than the catch-alls is classified under the kind of the first such
\* rule, also when it contains 'amplify/backend'.
C20_CatchAllsAtTail ==
    (Called /\ ReachesTable(before))
        => LET specific == MatchingRules(before.message) \ CatchAllRules
           IN  specific # {}
                 => /\ result.outcome = "returned"
                    /\ result.value.name = getKnownErrors[Least(specific)].errorName

\* The text ends with a carriage return or a line feed.
EndsWithEol(s) == s # <<>> /\ s[Len(s)] \in EolTokens

\* C21: whatever rule of the table is applied, the message of the returned
\* error does not end with a carriage return or a line feed.
C21_TrailingEolTrimmed ==
    (Called /\ result.matchingError # 0) => ~EndsWithEol(result.value.message)

\* C21 happens: the ESBuildError or the CommonNPMError rule is applied to a
\* message that ends with line terminators, which its named group captures,
\* and the returned message carries the captured text.
C21_Witness ==
    /\ Called
    /\ result.matchingError \in {25, 32}
    /\ EndsWithEol(before.message)
    /\ Len(before.message) >= 2
    /\ before.message[Len(before.message) - 1] \in EolTokens
    /\ result.value.message # <<>>
    /\ ~EndsWithEol(result.value.message)

\* C22 (as claimed): every rule of the table has a message template and a
\* resolution template that are not empty, and every error built from a rule
\* carries a message and a resolution that are not empty.
C22_MessageAndResolutionPaired ==
    /\ \A k \in 1..Len(getKnownErrors) :
          /\ getKnownErrors[k].humanReadableErrorMessage # <<>>
          /\ getKnownErrors[k].resolutionMessage # <<>>
    /\ (Called /\ result.matchingError # 0)
          => /\ result.value.message # <<>>
             /\ result.value.resolution # <<>>
             /\ result.value.resolution # Undefined

\* C23: an error built from a rule of the table is a user error exactly when
\* the rule's classification is 'ERROR' and a fault exactly when it is
\* 'FAULT', and its name is the rule's errorName.
C23_SeverityMapping ==
    (Called /\ result.matchingError # 0)
        => LET rule == getKnownErrors[result.matchingError]
           IN  /\ result.outcome = "returned"
               /\ result.value.amplify
               /\ result.value.name = rule.errorName
               /\ result.value.classification \in {"ERROR", "FAULT"}
               /\ result.value.classification = "ERROR" <=> rule.classification = "ERROR"
               /\ result.value.classification = "FAULT" <=> rule.classification = "FAULT"

\* C23 happens: the rule of a fault is applied and a fault is returned.
C23_Witness ==
    /\ Called
    /\ result.matchingError # 0
    /\ getKnownErrors[result.matchingError].classification = "FAULT"
    /\ result.value.name = "LambdaEmptyZipFault"
    /\ result.value.classification = "FAULT"

\* C24 (as claimed): a call of getAmplifyError invokes the formatter only when
\* its result is built from the SecretNotSetError rule, the one rule whose
\* resolution carries a CLI command.
C24_FormatterOnlyForSecretNotSet ==
    (Called /\ result.formatterCalls > 0)
        => /\ result.matchingError # 0
           /\ getKnownErrors[result.matchingError].errorName = "SecretNotSetError"

\* The rules of the pattern 'User: .. is not authorized to perform: ..':
\* GetLambdaLayerVersionError and the three AccessDeniedError rules.
UserRules == {19, 21, 22, 23}

\* Texts A of an action and R of a resource in the messages of that pattern.
ActionTexts == {"s3:GetObject", "$&", "{resource}"}
ResourceTexts == {"arn:aws:s3:::b", "$>", "{action}"}

IdentityPolicyClause(A) == <<" because no identity-based policy allows the ", A, " action">>

\* The message reaches the table scan and none of the rules placed before a
\* rule of the pattern, or between two of them, matches it.
ReachesUserRules(e) ==
    /\ ReachesTable(e)
    /\ NoRuleUpTo(18, WithoutAnsi(e.message))
    /\ ~Test(getKnownErrors[20].errorRegex, WithoutAnsi(e.message))

\* C27 (as claimed): among the rules of the pattern 'User: .. is not
\* authorized to perform: ..' the first one that matches classifies the
\* message: the GetLayerVersion rule first; then a message with 'on resource:
\* R' and the identity-based policy clause for A gives 'Ensure you have
\* permissions to call A for R', one with the clause and no resource gives
\* 'Ensure you have permissions to call A', and one with a resource and no
\* clause gives the action and resource resolution of the last rule.
C27_UserRulesOrder ==
    (Called /\ ReachesUserRules(before))
        => LET m == WithoutAnsi(before.message)
               matching == MatchingRules(before.message) \cap UserRules
           IN  /\ matching # {} => result.matchingError = Least(matching)
               /\ 19 \in matching => result.value.name = "GetLambdaLayerVersionError"
               /\ \A A \in ActionTexts, R \in ResourceTexts :
                     (19 \notin matching
                      /\ Occurs(UserMessage(A, <<" on resource:", R>> \o IdentityPolicyClause(A)), m))
                        => /\ result.value.name = "AccessDeniedError"
                           /\ result.value.resolution =
                                 <<"Ensure you have permissions to call ", A, " for ", R>>
               /\ \A A \in ActionTexts :
                     (19 \notin matching
                      /\ Occurs(UserMessage(A, IdentityPolicyClause(A)), m))
                        => /\ result.value.name = "AccessDeniedError"
                           /\ result.value.resolution =
                                 <<"Ensure you have permissions to call ", A>>
               /\ (matching # {} /\ Least(matching) = 23)
                        => /\ result.value.name = "AccessDeniedError"
                           /\ IsSubsequence(<<"Ensure you have permissions to call ", " for ">>,
                                            result.value.resolution)

\* The template with the text that each named group captured in the place of
\* the group's placeholder, character for character.
RECURSIVE LiteralFill(_, _, _)
LiteralFill(template, names, caps) ==
    IF template = <<>> THEN <<>>
    ELSE (IF \E k \in 1..Len(names) : Head(template) = "{" \o names[k] \o "}"
          THEN GroupValue(caps, names[CHOOSE k \in 1..Len(names) :
                                           Head(template) = "{" \o names[k] \o "}"])
          ELSE <<Head(template)>>)
         \o LiteralFill(Tail(template), names, caps)

\* C28 (as claimed): when a rule with named groups is applied, the returned
\* message and resolution are the rule's templates with the captured texts in
\* the place of the placeholders, character for character (the message without
\* the line terminators at its end), whatever the captured texts are.
C28_LiteralInsertion ==
    (/\ Called
     /\ result.matchingError # 0
     /\ GroupNames(getKnownErrors[result.matchingError].errorRegex) # <<>>)
        => LET rule == getKnownErrors[result.matchingError]
               names == GroupNames(rule.errorRegex)
               caps == Exec(rule.errorRegex, stripANSI(before.message))[3]
           IN  /\ result.value.message =
                     RemoveTrailingEol(LiteralFill(rule.humanReadableErrorMessage, names, caps))
               /\ result.value.resolution = LiteralFill(rule.resolutionMessage, names, caps)

\* The texts in braces that the templates of the table are written with: one
\* per named group of a rule, and the two of the bootstrap resolutions.
BraceTexts ==
    UNION { PlaceHolders(getKnownErrors[k]) : k \in 1..Len(getKnownErrors) }
    \cup {"{YOUR_ACCOUNT_ID}", "{YOUR_REGION}"}

\* The texts in braces of a text.
BracesOf(s) == { s[i] : i \in { j \in 1..Len(s) : s[j] \in BraceTexts } }

\* C29 (as claimed): for the rule that is applied, every named group is
\* referenced by a placeholder of the rule's message or resolution template,
\* every text in braces of the templates names a group of the rule, a rule
\* with named groups returns an error without cause, and no text in braces of
\* a template is left in the returned message or resolution.
C29_TableInvariant ==
    (Called /\ result.matchingError # 0)
        => LET rule == getKnownErrors[result.matchingError]
               templateBraces == BracesOf(rule.humanReadableErrorMessage)
                                 \cup BracesOf(rule.resolutionMessage)
           IN  /\ PlaceHolders(rule) \subseteq templateBraces
               /\ templateBraces \subseteq PlaceHolders(rule)
               /\ PlaceHolders(rule) # {} => result.value.cause = "undefined"
               /\ \A p \in templateBraces :
                     /\ ~Contains(result.value.message, p)
                     /\ ~Contains(result.value.resolution, p)

\* C25: generateTypes turns every BackendOutputClientError that getOutput
\* throws into a rejection with an AmplifyUserError that carries the message
\* of the error's type and a resolution.
C25_BackendOutputErrorsTranslated ==
    (generated.outcome # "none" /\ getOutput \in BackendOutputClientErrorTypes)
        => /\ generated.outcome = "rejected"
           /\ generated.kind = "AmplifyUserError"
           /\ generated.resolution # ""
           /\ getOutput = "DEPLOYMENT_IN_PROGRESS"
                 => generated.message = "Deployment is currently in progress."
           /\ getOutput = "NO_STACK_FOUND"
                 => generated.message = "Stack does not exist."
           /\ getOutput = "NO_OUTPUTS_FOUND"
                 => generated.message = "Amplify outputs not found in stack metadata"
           /\ getOutput = "CREDENTIALS_ERROR"
                 => generated.message = "Unable to get backend outputs due to invalid credentials."
           /\ getOutput = "ACCESS_DENIED"
                 => generated.message = "Unable to get backend outputs due to insufficient permissions."

\* C25 happens: getOutput threw an ACCESS_DENIED error and generateTypes
\* rejected.
C25_Witness ==
    /\ getOutput = "ACCESS_DENIED"
    /\ generated.outcome = "rejected"
    /\ generated.message = "Unable to get backend outputs due to insufficient permissions."

\* C26: createGraphqlTypesGenerator throws, before any call of generateTypes,
\* exactly when backendIdentifier or awsClientProvider is null; otherwise it
\* returns a generator.
C26_FactoryRejectsNull ==
    generator # "none"
        => /\ generator = "thrown" <=> (backendIdentifier = Null \/ awsClientProvider = Null)
           /\ generator = "created" <=> (backendIdentifier # Null /\ awsClientProvider # Null)
           /\ generator = "thrown" => generated = NotGenerated

\* C26 happens: the factory was called with a backendIdentifier and a null
\* awsClientProvider, and threw.
C26_Witness ==
    /\ backendIdentifier \in StackNames
    /\ awsClientProvider = Null
    /\ generator = "thrown"

PreferAmplifyErrors == RuleId(plugins[1], "prefer-amplify-errors")

NoAmplifyErrors == RuleId(plugins[1], "no-amplify-errors")

\* The rule ids that the plugin registers
RegisteredIds == { RuleId(plugins[1], key) : key \in rules }

IsTestFile(path) == GlobMatches(<< <<"**">>, <<"*", "test", "ts">> >>, path)

\* C30: every rule id configured in configs.recommended, at the top level and
\* in both overrides, is the plugin name, a slash and a key of the rules map;
\* every key of the rules map has a top-level entry; no file is matched by
\* both overrides, so no file has prefer-amplify-errors and no-amplify-errors
\* both at 'error'; and a test file never has prefer-amplify-errors at 'error'.
C30_LintConfigConsistent ==
    /\ DOMAIN recommended.rules \subseteq RegisteredIds
    /\ \A i \in 1..Len(recommended.overrides) :
            DOMAIN recommended.overrides[i].rules \subseteq RegisteredIds
    /\ RegisteredIds \subseteq DOMAIN recommended.rules
    /\ lintConfig.resolved
        => /\ DOMAIN lintConfig.rules = RegisteredIds
           /\ ~ /\ OverrideApplies(recommended.overrides[1], lintFile)
                /\ OverrideApplies(recommended.overrides[2], lintFile)
           /\ ~ /\ lintConfig.rules[PreferAmplifyErrors] = "error"
                /\ lintConfig.rules[NoAmplifyErrors] = "error"
           /\ IsTestFile(lintFile) => lintConfig.rules[PreferAmplifyErrors] # "error"

\* C30 happens: a test file below packages/model-generator/src is linted with
\* prefer-amplify-errors off, and so was a file next to it that is no test
\* file with the rule at 'error'.
C30_Witness ==
    /\ lintConfig.resolved
    /\ lintFile = << <<"packages">>, <<"model-generator">>, <<"src">>, <<"a", "test", "ts">> >>
    /\ lintConfig.rules[PreferAmplifyErrors] = "off"
    /\ ConfigFor(recommended, << <<"packages">>, <<"model-generator">>, <<"src">>,
                                 <<"a", "ts">> >>).rules[PreferAmplifyErrors] = "error"

====
